---- MODULE Spec2Model ----
(***************************************************************************)
(* State-machine model of the coinjoin-engine heuristics core:             *)
(*   - the anonymity-set solver portfolio (internal/heuristics/ssmp.go,    *)
(*     dp_solver.go, the CP-SAT backtracking lane),                        *)
(*   - the per-transaction pipeline AnalyzeTx,                             *)
(*   - the LLR edge generator and the factor-graph posterior.              *)
(*                                                                         *)
(* Go maps are iterated in an unspecified order; every place where the     *)
(* code's result depends on that order is a nondeterministic choice here.  *)
(* Float quantities are carried as scaled integers (hundredths for         *)
(* confidences, thousandths for LLRs).                                     *)
(***************************************************************************)
EXTENDS Integers, Sequences, FiniteSets, TLC

VARIABLES
    pc,         \* position of the driver of the specification in use
    casIn,      \* CalculateAnonSet: inputs argument ([]models.TxIn)
    casOut,     \* CalculateAnonSet: outputs argument ([]models.TxOut)
    casFee,     \* CalculateAnonSet: txFee argument
    casVsize,   \* CalculateAnonSet: txVsize argument
    casRes,     \* CalculateAnonSet: outcome of the call
    fgIn,       \* GenerateCIOHEdges: tx.Inputs
    fgIsCj,     \* GenerateCIOHEdges: isCoinJoin
    fgEdges,    \* the evidence edges generated or received
    fgRes,      \* EvaluateFactorGraph(fgEdges)
    fgPerm,     \* the same edges in another order
    fgRes2,     \* EvaluateFactorGraph(fgPerm)
    fgCluster,  \* ComputeClusterPosterior(fgEdges) of the cluster endpoint
    tx,         \* AnalyzeTx: the transaction analysed
    taintMap,   \* globalTaintMap: address -> taint level in hundredths
    txRes,      \* AnalyzeTx: outcome of the first call
    txRes2,     \* AnalyzeTx: outcome of a second call on the same transaction
    propChain,  \* PropagateEvidence: the chain of evidence edges
    propDecay,  \* PropagateEvidence: hopDecay in hundredths
    propRes,    \* PropagateEvidence: the propagated edge, <<>> for nil
    propEdge,   \* BuildTransitiveEdge: the edge built, <<>> before the call
    store,      \* which shared store the threads work on: "taint" or "watch"
    taintInitOnce,  \* taintInitOnce has run its function
    taintMu,    \* holder of taintMu: "free", "writer" or "reader"
    watchAddrs, \* AddressWatchlist.addresses: address -> alert level
    watchMu,    \* holder of AddressWatchlist.mu
    writer,     \* the thread that seeds the taint map or edits the watchlist
    checker,    \* the thread that runs CheckInputsForTaint or CheckTransaction
    scResult,   \* ScoreTransaction: the analysis result passed in
    scHits,     \* ScoreTransaction: the watchlist hits passed in
    scRes,      \* the ThreatAssessment returned, <<>> before the call
    scRes2,     \* the ThreatAssessment returned for the same hits in another order
    amMu,       \* holder of AlertManager.mu: "free", "admin" or "emitter"
    amWebhooks, \* AlertManager.webhooks
    recentAlerts,   \* AlertManager.recentAlerts
    emit,       \* the threads that call EmitAlert: position, alert, copied webhooks
    admin,      \* the thread that calls RegisterWebhook, RemoveWebhook, GetRecentAlerts
    deliveries, \* the sendWebhook goroutines started and not yet ended
    flowGraph,  \* the FlowGraph of a trace
    winArgs,    \* ComputeWindowedAnonSet: arguments and the clock reading
    winRes,     \* ComputeWindowedAnonSet: the AnonSetWindow returned
    shadowRun,  \* one RunShadowAnalysis call, its context and the shadow_results table
    invCase,    \* the Investigation of one case, shared by the API requests
    invReqs,    \* the API requests in flight on that case
    scanState,  \* the BlockScanner and the ScanRange calls in flight
    clEngine,   \* ClusterEngine.parent: address -> parent address
    clLinks     \* the merge-eligible links between known addresses applied so far

anonVars == <<casIn, casOut, casFee, casVsize, casRes>>
fgVars == <<fgIn, fgIsCj, fgEdges, fgRes, fgPerm, fgRes2, fgCluster>>
txVars == <<tx, taintMap, txRes, txRes2>>
propVars == <<propChain, propDecay, propRes, propEdge>>
lockVars == <<store, taintInitOnce, taintMu, watchAddrs, watchMu, writer, checker>>
scoreVars == <<scResult, scHits, scRes, scRes2>>
alertVars == <<amMu, amWebhooks, recentAlerts, emit, admin, deliveries>>
flowVars == <<flowGraph>>
lateVars == <<winArgs, winRes, shadowRun, invCase, invReqs, scanState, clEngine, clLinks>>
restVars == <<propVars, lockVars, scoreVars, alertVars, flowVars, lateVars>>
vars == <<pc, anonVars, fgVars, txVars, restVars>>

PropIdle ==
    /\ propChain = <<>>
    /\ propDecay = 0
    /\ propRes = <<>>
    /\ propEdge = <<>>

LockIdle ==
    /\ store = ""
    /\ taintInitOnce = FALSE
    /\ taintMu = "free"
    /\ watchAddrs = <<>>
    /\ watchMu = "free"
    /\ writer = <<>>
    /\ checker = <<>>

ScoreIdle ==
    /\ scResult = <<>>
    /\ scHits = <<>>
    /\ scRes = <<>>
    /\ scRes2 = <<>>

AlertIdle ==
    /\ amMu = "free"
    /\ amWebhooks = <<>>
    /\ recentAlerts = <<>>
    /\ emit = <<>>
    /\ admin = <<>>
    /\ deliveries = {}

FlowIdle == flowGraph = <<>>

\* the variables of the specifications that follow SpecTx are at rest
WinIdle == winArgs = <<>> /\ winRes = <<>>

ShadowIdle == shadowRun = <<>>

InvIdle == invCase = <<>> /\ invReqs = <<>>

ScanIdle == scanState = <<>>

ClusterIdle == clEngine = <<>> /\ clLinks = {}

LateIdle == WinIdle /\ ShadowIdle /\ InvIdle /\ ScanIdle /\ ClusterIdle

RestIdle == PropIdle /\ LockIdle /\ ScoreIdle /\ AlertIdle /\ FlowIdle /\ LateIdle

----------------------------------------------------------------------------
(* Generic helpers *)

Max2(a, b) == IF a >= b THEN a ELSE b
Min2(a, b) == IF a <= b THEN a ELSE b

SetMax(S) == CHOOSE x \in S : \A y \in S : y <= x

Range(s) == {s[i] : i \in 1..Len(s)}

RECURSIVE SeqSum(_)
SeqSum(s) == IF s = <<>> THEN 0 ELSE Head(s) + SeqSum(Tail(s))

\* the sequence of the Value fields of a []TxIn / []TxOut
Vals(items) == [i \in 1..Len(items) |-> items[i].Value]

\* number of positions of s that hold v
CountOf(s, v) == Cardinality({i \in 1..Len(s) : s[i] = v})

Repeat(x, n) == [i \in 1..n |-> x]

----------------------------------------------------------------------------
(* int64 conversion of a non-finite float and int64 wrap-around.           *)
(* The model's finite quantities stay far below 2^62; PosHuge and NegHuge  *)
(* stand for math.MaxInt64 and math.MinInt64.                              *)

PosHuge == 1000000000
NegHuge == -1000000000

\* a - t in int64 arithmetic, for a finite a >= 0
I64Sub(a, t) ==
    IF t = PosHuge THEN NegHuge      \* a - MaxInt64 < 0, no wrap
    ELSE IF t = NegHuge THEN NegHuge \* a + 2^63 wraps to a - 2^63
    ELSE a - t

\* a + t in int64 arithmetic, for a finite a >= 0
I64Add(a, t) ==
    IF t = PosHuge THEN (IF a = 0 THEN PosHuge ELSE NegHuge) \* wraps when a >= 1
    ELSE IF t = NegHuge THEN NegHuge
    ELSE a + t

----------------------------------------------------------------------------
(* Subset-sum solver portfolio: ssmp.go, dp_solver.go, CP-SAT lane *)

SolverCap == 15          \* ssmp.go:26  len(inputs) > 15 || len(outputs) > 15
MinTau == 1000           \* ssmp.go:96  minimum fee tolerance in sats
TauPerFeeRate == 150     \* ssmp.go:95  feeRate * 150.0
DPCap == 500000          \* ssmp.go:152 and dp_solver.go:22
CPSATCap == 100          \* CP-SAT lane: nIn*nOut > 100 refuses

\* variant: a fallback that reports "no equal outputs" as 0
countEqualOutputs_ZeroBelowTwo(outputs) ==
    IF outputs = <<>> THEN 0
    ELSE LET m == SetMax({CountOf(Vals(outputs), v) : v \in Range(Vals(outputs))})
         IN IF m < 2 THEN 0 ELSE m

\* countEqualOutputs: the highest multiplicity of any output value
countEqualOutputs(outputs) ==
    IF outputs = <<>> THEN 0
    ELSE SetMax({CountOf(Vals(outputs), v) : v \in Range(Vals(outputs))})

\* maxEqualOutputs after the loop "for val, count := range valueCounts"
\* (ssmp.go:47-59): the highest count in the frequency map
ModalCount(outputs) ==
    SetMax({CountOf(Vals(outputs), v) : v \in Range(Vals(outputs))})

\* the values that loop can leave in mixDenomination: the first value of
\* maximal count in map iteration order, which is any value of maximal count
ModalValues(outputs) ==
    {v \in Range(Vals(outputs)) : CountOf(Vals(outputs), v) = ModalCount(outputs)}

\* int64(feeRate*150.0) for feeRate := float64(txFee)/float64(txVsize) with the
\* "feeRate <= 0 -> 1.0" fallback.  With txVsize = 0 the quotient is NaN
\* (fee = 0) or +Inf (fee > 0); neither is <= 0 and the conversion of a
\* non-finite float to int64 is implementation-dependent: MinInt64 on amd64,
\* 0 (NaN) or MaxInt64 (+Inf) on arm64.
RawTauSet(fee, vsize) ==
    IF vsize > 0 THEN
        IF fee <= 0 THEN {TauPerFeeRate} ELSE {(fee * TauPerFeeRate) \div vsize}
    ELSE IF vsize = 0 THEN
        IF fee < 0 THEN {TauPerFeeRate}
        ELSE IF fee = 0 THEN {NegHuge, 0}
        ELSE {NegHuge, PosHuge}
    ELSE
        IF fee >= 0 THEN {TauPerFeeRate} ELSE {((-fee) * TauPerFeeRate) \div (-vsize)}

\* variant: the fast path without the 1000-sat minimum
FastTau_NoFloor(rawTau) == rawTau

\* tau of the fast path: raised to the 1000-sat minimum
FastTau(rawTau) == IF rawTau < MinTau THEN MinTau ELSE rawTau

RECURSIVE SubsetSums(_)
SubsetSums(s) ==
    IF s = <<>> THEN {0}
    ELSE LET r == SubsetSums(Tail(s)) IN r \cup {x + Head(s) : x \in r}

\* hasMatchingInputSubsetMitM: some left-half sum plus some right-half sum
\* lies in [target - tau, target]
hasMatchingInputSubsetMitM(vals, target, tau) ==
    LET n == Len(vals)
        mid == n \div 2
        leftSums == SubsetSums(SubSeq(vals, 1, mid))
        rightSums == SubsetSums(SubSeq(vals, mid + 1, n))
    IN \E sum \in rightSums : \E lSum \in leftSums :
          /\ lSum + sum >= I64Sub(target, tau)
          /\ lSum + sum <= target

\* isSubsetSumDP: a subset of values sums into [target-tau, target+tau],
\* the window clipped to [0, maxSum]
isSubsetSumDP(values, target, tau, maxSum) ==
    IF I64Sub(target, tau) > maxSum THEN FALSE
    ELSE LET dp == {s \in SubsetSums(values) : s <= maxSum}
             lowerBound == Max2(I64Sub(target, tau), 0)
             upperBound == Min2(I64Add(target, tau), maxSum)
         IN \E s \in dp : s >= lowerBound /\ s <= upperBound

\* SolveDPBitset: number of inputs some subset of the outputs matches
SolveDPBitset(inputs, outputs, tau) ==
    IF Len(inputs) = 0 \/ Len(outputs) = 0 THEN 0
    ELSE LET maxSum == SeqSum(outputs) IN
         IF maxSum > DPCap THEN 0
         ELSE Cardinality({i \in 1..Len(inputs) :
                              isSubsetSumDP(outputs, inputs[i], tau, maxSum)})

\* countValidPartitions: assignment[j] = i assigns output j to input i,
\* 0 leaves it unassigned (-1 in the code)
countValidPartitions(inputs, outputs, assignment, tau) ==
    LET partitionSum(i) ==
            SeqSum([j \in 1..Len(assignment) |->
                        IF assignment[j] = i THEN outputs[j] ELSE 0])
        partitionHasOutputs(i) == \E j \in 1..Len(assignment) : assignment[j] = i
    IN Cardinality({i \in 1..Len(inputs) :
            /\ partitionHasOutputs(i)
            /\ partitionSum(i) >= I64Sub(inputs[i], tau)
            /\ partitionSum(i) <= I64Add(inputs[i], tau)})

\* solveRecursive: the best count over the complete assignments the
\* backtracking reaches; assignment holds the choices for outputs 1..outputIdx-1
RECURSIVE solveRecursive(_, _, _, _, _)
solveRecursive(inputs, outputs, assignment, tau, outputIdx) ==
    IF outputIdx > Len(outputs)
    THEN countValidPartitions(inputs, outputs, assignment, tau)
    ELSE LET partialSum(i) ==
                 outputs[outputIdx] +
                 SeqSum([j \in 1..Len(assignment) |->
                            IF assignment[j] = i THEN outputs[j] ELSE 0])
             kept == {i \in 1..Len(inputs) :
                         ~(partialSum(i) > I64Add(inputs[i], tau))}
             sub(i) == solveRecursive(inputs, outputs, Append(assignment, i),
                                      tau, outputIdx + 1)
         IN SetMax({sub(i) : i \in kept} \cup {sub(0)})

SolveCPSAT(inputs, outputs, tauArg) ==
    LET nIn == Len(inputs)
        nOut == Len(outputs)
        tau == IF tauArg < MinTau THEN MinTau ELSE tauArg
    IN IF nIn * nOut > CPSATCap THEN 0
       ELSE IF nIn = 0 \/ nOut = 0 THEN 0
       ELSE solveRecursive(inputs, outputs, <<>>, tau, 1)

\* the inputs that survive the pruning loop (ssmp.go:71-84), in order
PrunedInputVals(inputVals, mixDenomination) ==
    SelectSeq(inputVals, LAMBDA v : ~(v < mixDenomination))

\* one input of the fast path: "direct" when the remainder is within tau,
\* "mitm" when the meet-in-the-middle search is run for it
FastPathKind(inVal, mixDenomination, tau) ==
    LET target == inVal - mixDenomination IN
    IF target <= tau /\ target >= 0 THEN "direct" ELSE "mitm"

FastPathLinked(inVal, outputVals, mixDenomination, tau) ==
    \/ FastPathKind(inVal, mixDenomination, tau) = "direct"
    \/ hasMatchingInputSubsetMitM(outputVals, inVal - mixDenomination, tau)

\* variant: the linkage count returned unclamped
ClampAnon_Unclamped(n, maxEqualOutputs, nInputs) == n

\* the clamps of ssmp.go:132-139 and 166-172
ClampAnon(n, maxEqualOutputs, nInputs) == Min2(Min2(n, maxEqualOutputs), nInputs)

\* dpTau: the tolerance handed to the DP lane, <<>> when the lane did not run
AnonResult(v, path, searches) ==
    [panic |-> FALSE, value |-> v, path |-> path, searches |-> searches, dpTau |-> <<>>]

\* the third argument of the call of SolveDPBitset: int64(feeRate*150.0)
DPLaneTau(rawTau) == rawTau

\* CalculateAnonSet.  mixDenomination is the value the map iteration left
\* (any member of ModalValues), rawTau the value of int64(feeRate*150.0).
\* The result records, besides the returned integer, whether the call
\* panicked ("inVal % mixDenomination" with mixDenomination = 0, ssmp.go:79),
\* which lane produced the value and how many subset-sum searches ran.
CalculateAnonSet(inputs, outputs, mixDenomination, rawTau) ==
    IF Len(inputs) = 0 \/ Len(outputs) = 0 THEN AnonResult(0, "empty", 0)
    ELSE IF Len(inputs) > SolverCap \/ Len(outputs) > SolverCap
    THEN AnonResult(countEqualOutputs(outputs), "fallback", 0)
    ELSE
    LET inputVals == Vals(inputs)
        outputVals == Vals(outputs)
        maxEqualOutputs == ModalCount(outputs)
    IN
    IF maxEqualOutputs <= 1 THEN AnonResult(0, "no_equal", 0)
    ELSE IF mixDenomination = 0
    THEN [panic |-> TRUE, value |-> 0, path |-> "panic", searches |-> 0, dpTau |-> <<>>]
    ELSE
    LET pruned == PrunedInputVals(inputVals, mixDenomination)
        tau == FastTau(rawTau)
        validLinkages ==
            Cardinality({i \in 1..Len(pruned) :
                FastPathLinked(pruned[i], outputVals, mixDenomination, tau)})
        mitmRuns ==
            Cardinality({i \in 1..Len(pruned) :
                FastPathKind(pruned[i], mixDenomination, tau) = "mitm"})
        fast == ClampAnon(validLinkages, maxEqualOutputs, Len(inputs))
    IN
    IF fast = 1 /\ maxEqualOutputs > 1 THEN
        IF SeqSum(outputVals) <= DPCap THEN
            LET dpResult == SolveDPBitset(pruned, outputVals, DPLaneTau(rawTau)) IN
            [AnonResult(ClampAnon(Max2(fast, dpResult), maxEqualOutputs, Len(inputs)),
                        "dp", mitmRuns + Len(pruned))
                EXCEPT !.dpTau = <<DPLaneTau(rawTau)>>]
        ELSE
            LET cpResult == SolveCPSAT(pruned, outputVals, rawTau) IN
            AnonResult(ClampAnon(Max2(fast, cpResult), maxEqualOutputs, Len(inputs)),
                       "cpsat", mitmRuns + 1)
    ELSE AnonResult(fast, "fast", mitmRuns)

\* the outcomes one call can have, over map iteration order and platform
CalculateAnonSetOutcomes(inputs, outputs, fee, vsize) ==
    {CalculateAnonSet(inputs, outputs, d, t) :
        d \in (IF outputs = <<>> THEN {0} ELSE ModalValues(outputs)),
        t \in RawTauSet(fee, vsize)}

----------------------------------------------------------------------------
(* Specification SpecAnon: calls of CalculateAnonSet over a bounded universe *)

MaxIn == 3       \* longest enumerated input list below the solver cap
MaxOut == 3      \* longest enumerated output list below the solver cap

\* output values in sats: zero, a mix denomination, a value more than the
\* minimum tolerance above it, and one beyond the DP lane's sum cap
OutValueSet == {0, 100, 2500, 600000}

\* input values in sats: the output values above zero, and the denomination
\* plus exactly the minimum tolerance
InValueSet == {100, 1100, 2500, 600000}

\* (txFee, txVsize): 1 sat/vB floor, 16 sat/vB, and the two vsize = 0 cases
FeeVsizeSet == {<<0, 100>>, <<1600, 100>>, <<0, 0>>, <<100, 0>>}

TxItem(v) == [Value |-> v]

ShortLists(V, n) == UNION {[1..k -> {TxItem(v) : v \in V}] : k \in 0..n}

\* input lists one longer than the solver cap
LongInLists == {Repeat(TxItem(v), SolverCap + 1) : v \in InValueSet}

\* output lists one longer than the solver cap: k copies of one value and
\* then another value, or pairwise distinct values
LongOutLists ==
    {Repeat(TxItem(v), k) \o Repeat(TxItem(w), SolverCap + 1 - k) :
        v \in OutValueSet, w \in OutValueSet, k \in 0..MaxOut}
    \cup {[i \in 1..(SolverCap + 1) |-> TxItem(100 * i)]}

\* four outputs forming two equal-value pairs: two values tie for the
\* highest multiplicity
PairedOutLists ==
    LET pairs == {p \in OutValueSet \X OutValueSet : p[1] # p[2]} IN
    {<<TxItem(p[1]), TxItem(p[1]), TxItem(p[2]), TxItem(p[2])>> : p \in pairs}
    \cup {<<TxItem(p[1]), TxItem(p[2]), TxItem(p[1]), TxItem(p[2])>> : p \in pairs}

\* the factor-graph variables while another specification runs
FgIdle ==
    /\ fgIn = <<>>
    /\ fgIsCj = FALSE
    /\ fgEdges = <<>>
    /\ fgRes = <<>>
    /\ fgPerm = <<>>
    /\ fgRes2 = <<>>
    /\ fgCluster = <<>>

\* the pipeline variables while another specification runs
TxIdle ==
    /\ tx = <<>>
    /\ taintMap = <<>>
    /\ txRes = <<>>
    /\ txRes2 = <<>>

NoResult == [panic |-> FALSE, value |-> 0, path |-> "none", searches |-> 0, dpTau |-> <<>>]

InitAnon ==
    /\ pc = "call"
    /\ casIn \in ShortLists(InValueSet, MaxIn) \cup LongInLists
    /\ casOut \in ShortLists(OutValueSet, MaxOut) \cup PairedOutLists \cup LongOutLists
    /\ \E fv \in FeeVsizeSet : casFee = fv[1] /\ casVsize = fv[2]
    /\ casRes = NoResult
    /\ FgIdle
    /\ TxIdle
    /\ RestIdle

\* one call of CalculateAnonSet: returns a value or panics
CallCalculateAnonSet ==
    /\ pc = "call"
    /\ \E r \in CalculateAnonSetOutcomes(casIn, casOut, casFee, casVsize) :
          /\ casRes' = r
          /\ pc' = IF r.panic THEN "panicked" ELSE "returned"
    /\ UNCHANGED <<casIn, casOut, casFee, casVsize, fgVars, txVars, restVars>>

NextAnon == CallCalculateAnonSet

SpecAnon == InitAnon /\ [][NextAnon]_vars

----------------------------------------------------------------------------
(* Claims about CalculateAnonSet, checked under SpecAnon *)

\* the highest number of times any one value occurs in a list of items
MaxMultiplicity(items) ==
    IF items = <<>> THEN 0
    ELSE CHOOSE k \in 1..Len(items) :
            /\ \E i \in 1..Len(items) : CountOf(Vals(items), items[i].Value) = k
            /\ \A i \in 1..Len(items) : CountOf(Vals(items), items[i].Value) <= k

OverCap == Len(casIn) > SolverCap \/ Len(casOut) > SolverCap

\* C2: CalculateAnonSet is total for non-negative values, fee = 0 and
\* vsize = 0 included: every call returns an integer >= 0 and none ends in
\* a run-time error.
C2_Total ==
    pc # "call" => (pc = "returned" /\ ~casRes.panic /\ casRes.value >= 0)

C5_Original ==
    pc = "returned" =>
        /\ casRes.value <= MaxMultiplicity(casOut)
        /\ casRes.value <= Len(casIn)

\* C5 amended: the returned value is at most the multiplicity of the most
\* frequent output value on every path, and at most the number of inputs
\* whenever neither list exceeds 15 entries (fast path and escalation
\* lanes); the structural fallback is not clamped by the number of inputs.
C5_UpperBound ==
    pc = "returned" =>
        /\ casRes.value <= MaxMultiplicity(casOut)
        /\ ~OverCap => casRes.value <= Len(casIn)

\* three inputs all linked against two equal outputs: the clamp by the
\* modal multiplicity decides the value
C5_Witness ==
    /\ pc = "returned"
    /\ Len(casIn) = 3
    /\ MaxMultiplicity(casOut) = 2
    /\ \A i \in 1..3 : casIn[i].Value = 100
    /\ \E j \in 1..Len(casOut) : casOut[j].Value = 100
    /\ casRes.value = 2

\* C6: when the number of inputs or of outputs exceeds 15 (both non-empty)
\* CalculateAnonSet returns the maximum multiplicity of any output value and
\* runs no subset-sum search.
C6_Fallback ==
    (pc # "call" /\ OverCap /\ casIn # <<>> /\ casOut # <<>>) =>
        /\ pc = "returned"
        /\ casRes.value = MaxMultiplicity(casOut)
        /\ casRes.searches = 0

\* a fallback call on sixteen pairwise distinct outputs returned 1
C6_Witness ==
    /\ pc = "returned"
    /\ Len(casOut) = SolverCap + 1
    /\ Len(casIn) = 1
    /\ MaxMultiplicity(casOut) = 1
    /\ casRes.value = 1

----------------------------------------------------------------------------
(* LLR edge generator (llr_engine.go) and factor graph (factor_graph.go).  *)
(* Strings that the code inspects by prefix are sequences of characters.   *)
(* Probabilities are in hundredths, LLR scores in thousandths.             *)

EdgeTypeCIOH == 1                  \* llr_engine.go:15
EdgeTypeCIOHInvalidated == 3       \* llr_engine.go:17
EdgeTypeCoinjoinSuspected == 4     \* llr_engine.go:18
DepGroupNone == 0                  \* llr_engine.go:29
DepGroupScriptHomogeneity == 1     \* llr_engine.go:30
DepGroupCoordination == 3          \* llr_engine.go:32
CurrentSnapshotID == 202602235     \* llr_engine.go:102

Abs(x) == IF x < 0 THEN -x ELSE x

\* strings.HasPrefix
HasPrefix(s, p) == Len(s) >= Len(p) /\ SubSeq(s, 1, Len(p)) = p

\* classifyAddressType (change_detection.go): the script type by prefix
classifyAddressType(addr) ==
    IF addr = <<>> THEN ""
    ELSE IF HasPrefix(addr, <<"b", "c", "1", "p">>) THEN "p2tr"
    ELSE IF HasPrefix(addr, <<"b", "c", "1", "q">>) THEN "p2wpkh"
    ELSE IF HasPrefix(addr, <<"3">>) THEN "p2sh"
    ELSE IF HasPrefix(addr, <<"1">>) THEN "p2pkh"
    ELSE IF HasPrefix(addr, <<"t", "b", "1", "p">>) THEN "p2tr"
    ELSE IF HasPrefix(addr, <<"t", "b", "1", "q">>) THEN "p2wpkh"
    ELSE "unknown"

\* detectAddressType (wallet_fingerprint.go)
detectAddressType(addr) ==
    LET t == classifyAddressType(addr) IN
    IF t = "p2tr" THEN "taproot"
    ELSE IF t = "p2wpkh" THEN "segwit"
    ELSE IF t = "p2sh" THEN "p2sh-segwit"
    ELSE IF t = "p2pkh" THEN "legacy"
    ELSE "unknown"

\* round(1000 * log10(p / (100 - p))) for the probabilities the engine uses
Log10OddsMilli(p) ==
    CASE p = 50 -> 0
      [] p = 60 -> 176
      [] p = 85 -> 753
      [] p = 95 -> 1279
      [] p = 99 -> 1996

\* ProbToLLR
ProbToLLR(probability) ==
    IF probability >= 100 THEN 999000
    ELSE IF probability <= 0 THEN -999000
    ELSE Log10OddsMilli(probability)

MixerCoordinator ==
    <<"M", "i", "x", "e", "r", "_", "C", "o", "o", "r", "d", "i", "n", "a", "t", "o", "r">>

\* createEdge.  edgeID is the value uuid.New() returned; the SHA-256 audit
\* hash is represented by the payload it digests.
createEdge(edgeID, src, dst, edgeType, llr, depGroup, height) ==
    [EdgeID |-> edgeID,
     CreatedHeight |-> height,
     SrcNodeID |-> src,
     DstNodeID |-> dst,
     EdgeType |-> edgeType,
     LLRScore |-> llr,
     DependencyGroup |-> depGroup,
     SnapshotID |-> CurrentSnapshotID,
     AuditHash |-> <<edgeID, src, dst, edgeType, llr, depGroup, CurrentSnapshotID>>]

\* the k-th identifier uuid.New() returns during call number call: random
\* version-4 UUIDs, taken never to repeat
Uuid(call, k) == <<"uuid", call, k>>

\* variant: the generator without the coinjoin gate
GenerateCIOHEdges_NoGating(inputs, isCoinJoin, currentHeight, call) ==
    IF Len(inputs) < 2 THEN <<>>
    ELSE [k \in 1..(Len(inputs) - 1) |->
             createEdge(Uuid(call, k), inputs[1].Address, inputs[k + 1].Address,
                        EdgeTypeCIOH, ProbToLLR(95),
                        DepGroupScriptHomogeneity, currentHeight)]

\* GenerateCIOHEdges
GenerateCIOHEdges(inputs, isCoinJoin, currentHeight, call) ==
    IF Len(inputs) < 2 THEN <<>>
    ELSE IF isCoinJoin THEN
        [k \in 1..(2 * Len(inputs)) |->
            IF k % 2 = 1
            THEN createEdge(Uuid(call, k), inputs[(k + 1) \div 2].Address,
                            MixerCoordinator, EdgeTypeCIOHInvalidated,
                            -ProbToLLR(99), DepGroupCoordination, currentHeight)
            ELSE createEdge(Uuid(call, k), inputs[k \div 2].Address,
                            MixerCoordinator, EdgeTypeCoinjoinSuspected,
                            -ProbToLLR(85), DepGroupCoordination, currentHeight)]
    ELSE
        LET primaryInput == inputs[1].Address
            allSameType ==
                \A i \in 2..Len(inputs) :
                    detectAddressType(inputs[i].Address) = detectAddressType(primaryInput)
            confidence == IF allSameType THEN 95 ELSE 60
        IN [k \in 1..(Len(inputs) - 1) |->
               createEdge(Uuid(call, k), primaryInput, inputs[k + 1].Address,
                          EdgeTypeCIOH, ProbToLLR(confidence),
                          DepGroupScriptHomogeneity, currentHeight)]

\* classifyConfidence: bands at |LLR| > 2.0, > 1.0, > 0.5
classifyConfidence(llr) ==
    IF Abs(llr) > 2000 THEN "high"
    ELSE IF Abs(llr) > 1000 THEN "medium"
    ELSE IF Abs(llr) > 500 THEN "low"
    ELSE "rejected"

\* the loop over groupEdges[1:]: a later edge replaces the representative
\* only when its |LLR| is strictly larger
RECURSIVE StrongestFrom(_, _)
StrongestFrom(maxLLR, rest) ==
    IF rest = <<>> THEN maxLLR
    ELSE IF Abs(Head(rest).LLRScore) > Abs(maxLLR)
         THEN StrongestFrom(Head(rest).LLRScore, Tail(rest))
         ELSE StrongestFrom(maxLLR, Tail(rest))

\* groups[g]: the edges of dependency group g in input order
GroupEdges(edges, g) == SelectSeq(edges, LAMBDA e : e.DependencyGroup = g)

GroupKeys(edges) == {edges[i].DependencyGroup : i \in 1..Len(edges)}

RECURSIVE SumOver(_, _)
SumOver(S, f) ==
    IF S = {} THEN 0
    ELSE LET x == CHOOSE y \in S : TRUE IN f[x] + SumOver(S \ {x}, f)

\* variant: every edge contributes, correlated or not
EvaluateFactorGraph_SumAll(edges) ==
    IF Len(edges) = 0
    THEN [PosteriorLLR |-> 0, ConfidenceLevel |-> "rejected", DiscountedEdges |-> 0,
          TotalEdges |-> 0, EffectiveFactors |-> 0]
    ELSE LET posteriorLLR == SeqSum([i \in 1..Len(edges) |-> edges[i].LLRScore])
         IN [PosteriorLLR |-> posteriorLLR,
             ConfidenceLevel |-> classifyConfidence(posteriorLLR),
             DiscountedEdges |-> 0,
             TotalEdges |-> Len(edges),
             EffectiveFactors |-> Cardinality(GroupKeys(edges))]

\* EvaluateFactorGraph
EvaluateFactorGraph(edges) ==
    IF Len(edges) = 0
    THEN [PosteriorLLR |-> 0, ConfidenceLevel |-> "rejected", DiscountedEdges |-> 0,
          TotalEdges |-> 0, EffectiveFactors |-> 0]
    ELSE LET groups == GroupKeys(edges)
             maxLLR == [g \in groups |->
                          StrongestFrom(GroupEdges(edges, g)[1].LLRScore,
                                        Tail(GroupEdges(edges, g)))]
             fused == [g \in groups |-> Len(GroupEdges(edges, g)) - 1]
             posteriorLLR == SumOver(groups, maxLLR)
         IN [PosteriorLLR |-> posteriorLLR,
             ConfidenceLevel |-> classifyConfidence(posteriorLLR),
             DiscountedEdges |-> SumOver(groups, fused),
             TotalEdges |-> Len(edges),
             EffectiveFactors |-> Cardinality(groups)]

\* ComputeClusterPosterior
ComputeClusterPosterior(edges) ==
    LET result == EvaluateFactorGraph(edges) IN
    <<result.ConfidenceLevel = "high" \/ result.ConfidenceLevel = "medium",
      result.PosteriorLLR>>

----------------------------------------------------------------------------
(* Specification SpecFG: edge generation and factor-graph evaluation *)

MaxFgIn == 3     \* most inputs of a transaction handed to GenerateCIOHEdges
MaxEdges == 3    \* most edges in a request to the cluster endpoint

AddrLegacyA == <<"1", "A">>
AddrSegwitA == <<"b", "c", "1", "q", "a">>
AddrSegwitB == <<"b", "c", "1", "q", "b">>

FgAddrSet == {AddrLegacyA, AddrSegwitA, AddrSegwitB}

FgInputLists == UNION {[1..n -> {[Address |-> a] : a \in FgAddrSet}] : n \in 0..MaxFgIn}

\* LLR scores a request may carry: both signs of two magnitudes
ReqLLRSet == {-2000, -753, 753, 2000}

ReqGroupSet == {DepGroupScriptHomogeneity, DepGroupCoordination}

\* an edge as decoded from the request body of the cluster endpoint
ReqEdge(llr, g) ==
    [EdgeID |-> <<"req">>,
     CreatedHeight |-> 0,
     SrcNodeID |-> AddrSegwitA,
     DstNodeID |-> AddrSegwitB,
     EdgeType |-> EdgeTypeCIOH,
     LLRScore |-> llr,
     DependencyGroup |-> g,
     SnapshotID |-> CurrentSnapshotID,
     AuditHash |-> <<>>]

ReqEdgeLists ==
    UNION {[1..n -> {ReqEdge(l, g) : l \in ReqLLRSet, g \in ReqGroupSet}] : n \in 0..MaxEdges}

IndexPermutations(n) == {f \in [1..n -> 1..n] : \A i, j \in 1..n : f[i] = f[j] => i = j}

NoInference == <<>>

AnonIdle ==
    /\ casIn = <<>>
    /\ casOut = <<>>
    /\ casFee = 0
    /\ casVsize = 0
    /\ casRes = NoResult

\* either a transaction whose edges are to be generated, or a request to
\* the cluster endpoint carrying edges
InitFG ==
    /\ AnonIdle
    /\ TxIdle
    /\ RestIdle
    /\ fgRes = NoInference
    /\ fgPerm = <<>>
    /\ fgRes2 = NoInference
    /\ fgCluster = <<>>
    /\ \/ /\ pc = "start"
          /\ fgIn \in FgInputLists
          /\ fgIsCj \in BOOLEAN
          /\ fgEdges = <<>>
       \/ /\ pc = "request"
          /\ fgIn = <<>>
          /\ fgIsCj = FALSE
          /\ fgEdges \in ReqEdgeLists

\* GenerateCIOHEdges(tx, isCoinJoin, 0), as AnalyzeTx calls it
CallGenerateCIOHEdges ==
    /\ pc = "start"
    /\ fgEdges' = GenerateCIOHEdges(fgIn, fgIsCj, 0, 1)
    /\ pc' = "generated"
    /\ UNCHANGED <<anonVars, txVars, restVars, fgIn, fgIsCj, fgRes, fgPerm, fgRes2, fgCluster>>

\* AnalyzeTx: the factor graph is evaluated when there are edges
EvaluateGenerated ==
    /\ pc = "generated"
    /\ fgRes' = IF Len(fgEdges) > 0 THEN EvaluateFactorGraph(fgEdges) ELSE NoInference
    /\ pc' = "evaluated"
    /\ UNCHANGED <<anonVars, txVars, restVars, fgIn, fgIsCj, fgEdges, fgPerm, fgRes2, fgCluster>>

\* handleEvaluateCluster: the cluster endpoint on the received edges
handleEvaluateCluster ==
    /\ pc = "request"
    /\ fgCluster' = ComputeClusterPosterior(fgEdges)
    /\ fgRes' = EvaluateFactorGraph(fgEdges)
    /\ pc' = "evaluated"
    /\ UNCHANGED <<anonVars, txVars, restVars, fgIn, fgIsCj, fgEdges, fgPerm, fgRes2>>

\* the same edges evaluated again in another order
EvaluatePermuted ==
    /\ pc = "evaluated"
    /\ fgRes # NoInference
    /\ \E f \in IndexPermutations(Len(fgEdges)) :
          LET permuted == [i \in 1..Len(fgEdges) |-> fgEdges[f[i]]] IN
          /\ fgPerm' = permuted
          /\ fgRes2' = EvaluateFactorGraph(permuted)
    /\ pc' = "compared"
    /\ UNCHANGED <<anonVars, txVars, restVars, fgIn, fgIsCj, fgEdges, fgRes, fgCluster>>

NextFG ==
    \/ CallGenerateCIOHEdges
    \/ EvaluateGenerated
    \/ handleEvaluateCluster
    \/ EvaluatePermuted

SpecFG == InitFG /\ [][NextFG]_vars

----------------------------------------------------------------------------
(* Claims about the edge generator and the factor graph, under SpecFG *)

\* C8: EvaluateFactorGraph returns the same posterior_llr, confidence_level,
\* discounted_edges, total_edges and effective_factors for every permutation
\* of the same edges, two edges of equal |LLR| and opposite sign in one
\* dependency group included.
C8_PermutationInvariant ==
    pc = "compared" => fgRes2 = fgRes

\* the LLRs of the edges of group g whose absolute LLR is the largest of
\* the group
StrongestLLRs(edges, g) ==
    {edges[i].LLRScore : i \in {j \in 1..Len(edges) :
        /\ edges[j].DependencyGroup = g
        /\ \A k \in 1..Len(edges) :
              edges[k].DependencyGroup = g
                 => Abs(edges[k].LLRScore) <= Abs(edges[j].LLRScore)}}

C10_CoinJoinGating ==
    (pc = "generated" /\ fgIsCj /\ Len(fgIn) >= 2) =>
        /\ Len(fgEdges) = 2 * Len(fgIn)
        /\ \A i \in 1..Len(fgEdges) :
              /\ fgEdges[i].EdgeType \in {EdgeTypeCIOHInvalidated, EdgeTypeCoinjoinSuspected}
              /\ fgEdges[i].EdgeType # EdgeTypeCIOH
              /\ fgEdges[i].DependencyGroup = DepGroupCoordination
              /\ fgEdges[i].LLRScore < 0

\* a coinjoin of three inputs produced its six gating edges
C10_Witness ==
    /\ pc = "generated"
    /\ fgIsCj
    /\ Len(fgIn) = 3
    /\ Len(fgEdges) = 6
    /\ fgEdges[1].LLRScore = -1996
    /\ fgEdges[2].LLRScore = -753

----------------------------------------------------------------------------
(* The per-transaction pipeline AnalyzeTx (ssmp.go) and the analysers it   *)
(* calls.  Strings (addresses, txids, hex scripts) are sequences of        *)
(* one-character strings.  uint32 fields (Vout, Sequence, LockTime) are    *)
(* records [hi, lo] of two 16-bit halves.  Each analyser carries the       *)
(* fields of its result that AnalyzeTx or CalibratePrivacyScore reads.     *)

\* the characters scripts, txids and addresses are made of, in byte order
AsciiOrder ==
    <<" ", "0", "1", "2", "3", "4", "5", "6", "7", "8", "9",
      "A", "B", "C", "D", "E", "F", "P", "Q",
      "a", "b", "c", "d", "e", "f", "p", "q", "t">>

UpperChars == <<"A", "B", "C", "D", "E", "F", "P", "Q">>
LowerChars == <<"a", "b", "c", "d", "e", "f", "p", "q">>

CharCode(c) == CHOOSE i \in 1..Len(AsciiOrder) : AsciiOrder[i] = c

\* the Go comparison s > t on strings: bytewise lexicographic
RECURSIVE StrGreater(_, _)
StrGreater(s, t) ==
    IF s = <<>> THEN FALSE
    ELSE IF t = <<>> THEN TRUE
    ELSE IF Head(s) # Head(t) THEN CharCode(Head(s)) > CharCode(Head(t))
    ELSE StrGreater(Tail(s), Tail(t))

\* strings.ToLower
ToLower(s) ==
    [i \in 1..Len(s) |->
        IF \E k \in 1..Len(UpperChars) : UpperChars[k] = s[i]
        THEN LowerChars[CHOOSE k \in 1..Len(UpperChars) : UpperChars[k] = s[i]]
        ELSE s[i]]

\* strings.Contains
Contains(s, sub) ==
    \E i \in 1..(Len(s) - Len(sub) + 1) : SubSeq(s, i, i + Len(sub) - 1) = sub

\* strings.TrimSpace
TrimSpace(s) ==
    LET solid == {i \in 1..Len(s) : s[i] # " "} IN
    IF solid = {} THEN <<>>
    ELSE SubSeq(s, CHOOSE i \in solid : \A j \in solid : i <= j,
                   CHOOSE i \in solid : \A j \in solid : i >= j)

\* math.Round(a / b) for b > 0: half away from zero
RoundDiv(a, b) ==
    IF a >= 0 THEN (2 * a + b) \div (2 * b) ELSE -((2 * (-a) + b) \div (2 * b))

\* a slice of integers sorted ascending (sort.Slice on values)
RECURSIVE SortAsc(_)
SortAsc(s) ==
    IF s = <<>> THEN <<>>
    ELSE LET m == CHOOSE i \in 1..Len(s) : \A j \in 1..Len(s) : s[i] <= s[j]
         IN <<s[m]>> \o SortAsc([k \in 1..(Len(s) - 1) |-> IF k < m THEN s[k] ELSE s[k + 1]])

\* uint32 values
U32(hi, lo) == [hi |-> hi, lo |-> lo]
U32Zero == U32(0, 0)
U32Greater(a, b) == a.hi > b.hi \/ (a.hi = b.hi /\ a.lo > b.lo)
\* the value as an integer, for values below 2^31
U32Int(u) == u.hi * 65536 + u.lo
HalfRange == 32768      \* a uint32 whose high half is below 2^15 is below 2^31
HalfMax == 65535        \* each half of 0xFFFFFFFF
\* in.Sequence > 0 && in.Sequence < 0xFFFFFFFE
SignalsRBF(seq) == seq # U32Zero /\ (seq.hi < HalfMax \/ seq.lo < HalfMax - 1)

\* HeuristicFlags is carried as the set of the names of the flags of
\* llr_engine.go whose bit is set (every flag has a bit of its own)
\* flag f when cond holds, as "if cond { flags |= f }"
FlagIf(cond, f) == IF cond THEN {f} ELSE {}

\* cuda.CalculateAnonSetHardware of the default build (no cuda tag)
CalculateAnonSetHardware(t) == 0

\* AnalyzeTx step 3: some input address was seen on an earlier input
hasReuse(inputs) ==
    \E i, j \in 1..Len(inputs) : i < j /\ inputs[i].Address = inputs[j].Address

\* AnalyzeTx step 4: SegWit / Taproot / Schnorr flags from the input types
DeterministicFlags(inputs) ==
    FlagIf(\E i \in 1..Len(inputs) :
               detectAddressType(inputs[i].Address) \in {"segwit", "p2sh-segwit"},
           "FlagIsSegWit")
    \cup (IF \E i \in 1..Len(inputs) : detectAddressType(inputs[i].Address) = "taproot"
          THEN {"FlagIsTaproot", "FlagHasSchnorrSig"} ELSE {})

\* AnalyzeTx step 5: Whirlpool, WabiSabi and PayJoin shapes
ProtocolFlags(t, isCj, anonSet) ==
    LET nIn == Len(t.Inputs)
        nOut == Len(t.Outputs)
        isWhirlpoolShape == nIn >= 5 /\ nIn <= 8 /\ nOut = nIn
        equalGroups ==
            Cardinality({v \in Range(Vals(t.Outputs)) : CountOf(Vals(t.Outputs), v) >= 2})
    IN FlagIf(isCj /\ isWhirlpoolShape /\ anonSet = nIn, "FlagIsWhirlpoolStruct")
       \cup FlagIf(isCj /\ nIn >= 5 /\ nOut >= 10
                   /\ (equalGroups >= 3 \/ (nIn > 50 /\ nOut > 50)),
                   "FlagIsWasabiSuspect")
       \cup FlagIf(~isCj /\ nIn = 2 /\ nOut >= 2
                   /\ t.Outputs[1].Value = t.Inputs[1].Value,
                   "FlagIsPayjoinSuspect")

\* watchlist.go detectSilentPayments
detectSilentPayments(t) ==
    FlagIf(Len(t.Inputs) = 1 /\ Len(t.Outputs) >= 5
           /\ \A j \in 1..Len(t.Outputs) :
                  detectAddressType(t.Outputs[j].Address) = "taproot",
           "FlagIsSilentPayment")

\* watchlist.go detectPayJoinV3
detectPayJoinV3(t) ==
    FlagIf(Len(t.Inputs) = 2 /\ Len(t.Outputs) = 2
           /\ (t.Outputs[1].Value = t.Inputs[1].Value
               \/ t.Outputs[2].Value = t.Inputs[2].Value),
           "FlagIsPayjoinSuspect")

\* watchlist.go containsCLTVPattern: "b175" at an even byte offset
containsCLTVPattern(hexScript) ==
    \E i \in 0..(Len(hexScript) - 4) :
        i % 2 = 0 /\ SubSeq(hexScript, i + 1, i + 4) = <<"b", "1", "7", "5">>

P2WSHLen == 66

\* watchlist.go detectJoinMarketBond
detectJoinMarketBond(t) ==
    FlagIf(\E j \in 1..Len(t.Outputs) :
               LET hex == t.Outputs[j].ScriptPubKey IN
               /\ Len(hex) # 0
               /\ ~(Len(hex) = P2WSHLen /\ SubSeq(hex, 1, 4) = <<"0", "0", "2", "0">>)
               /\ containsCLTVPattern(hex),
           "FlagIsJoinMarketBond")

\* WatchListMonitor.Evaluate of a fresh (active) monitor
Evaluate(t) ==
    detectSilentPayments(t) \cup detectPayJoinV3(t) \cup detectJoinMarketBond(t)

\* isRoundAmount (change_detection.go)
roundDenominations ==
    {100000000, 50000000, 10000000, 5000000, 1000000, 500000, 100000, 50000, 10000}

isRoundAmount(sats) == sats > 0 /\ \E denom \in roundDenominations : sats % denom = 0

\* address types of the inputs with their counts (types of empty addresses
\* are not counted), and the types a map iteration can leave as dominant
TypeCounts(items) ==
    LET types == {classifyAddressType(items[i].Address) : i \in 1..Len(items)} \ {""}
    IN [ty \in types |->
           Cardinality({i \in 1..Len(items) : classifyAddressType(items[i].Address) = ty})]

DominantTypes(counts) ==
    IF DOMAIN counts = {} THEN {""}
    ELSE {ty \in DOMAIN counts : \A u \in DOMAIN counts : counts[u] <= counts[ty]}

\* First index of the smallest value among the candidate indices, 0 if none
FirstMinIndex(values, candidates) ==
    IF candidates = {} THEN 0
    ELSE CHOOSE i \in candidates :
             \A j \in candidates : values[i] < values[j] \/ (values[i] = values[j] /\ i <= j)

\* Vote weights of DetectChangeOutput, in hundredths
WeightOptimalChange == 30
WeightRoundNumber == 35
WeightScriptTypeMatch == 25
WeightAddressReuseSelf == 50
WeightShadowChange == 20
MinChangeConfidence == 25

\* DetectChangeOutput, for one dominant input type the map iteration may
\* have left: the score of every output index (0 = no vote)
ChangeScores(t, dominantType) ==
    LET ins == t.Inputs
        outs == t.Outputs
        nOut == Len(outs)
        positiveIns == {ins[i].Value : i \in {k \in 1..Len(ins) : ins[k].Value > 0}}
        \* heuristic 1: the smallest positive output below every positive input
        optimalIdx ==
            IF Len(ins) = 0 THEN 0
            ELSE FirstMinIndex(Vals(outs),
                     {j \in 1..nOut : outs[j].Value > 0
                                      /\ \A v \in positiveIns : outs[j].Value < v})
        \* heuristic 2: exactly one non-round output next to round ones
        nonRound == {j \in 1..nOut : ~isRoundAmount(outs[j].Value)}
        roundVote == nOut - Cardinality(nonRound) >= 1 /\ Cardinality(nonRound) = 1
        \* heuristic 3: exactly one output of the dominant input type
        matching == {j \in 1..nOut : classifyAddressType(outs[j].Address) = dominantType}
        typeVote == Len(ins) > 0 /\ dominantType # "" /\ Cardinality(matching) = 1
        \* heuristic 4: the output pays an input address
        reuse(j) == outs[j].Address # <<>>
                    /\ \E i \in 1..Len(ins) : ins[i].Address = outs[j].Address
        \* heuristic 5: 1-in-2-out and input - fee - other output = this output
        shadow(j) == Len(ins) = 1 /\ nOut = 2
                     /\ ins[1].Value - t.Fee - outs[j].Value = outs[3 - j].Value
    IN [j \in 1..nOut |->
          (IF optimalIdx = j THEN WeightOptimalChange ELSE 0)
          + (IF roundVote /\ j \in nonRound THEN WeightRoundNumber ELSE 0)
          + (IF typeVote /\ j \in matching THEN WeightScriptTypeMatch ELSE 0)
          + (IF reuse(j) THEN WeightAddressReuseSelf ELSE 0)
          + (IF shadow(j) THEN WeightShadowChange ELSE 0)]

\* whether heuristic 2 of DetectChangeOutput voted (IsRoundPayment)
IsRoundPayment(t) ==
    LET nonRound == {j \in 1..Len(t.Outputs) : ~isRoundAmount(t.Outputs[j].Value)} IN
    Len(t.Outputs) - Cardinality(nonRound) >= 1 /\ Cardinality(nonRound) = 1

NoChange == [ChangeIndex |-> -1, Confidence |-> 0, IsRoundPayment |-> FALSE]

\* DetectChangeOutput: the results the call can return.  The dominant input
\* type and the best index are found by iterating Go maps, so ties are
\* broken by the iteration order.  ChangeIndex is the 0-based index,
\* Confidence is in hundredths.
DetectChangeOutput(t) ==
    IF Len(t.Outputs) < 2 \/ Len(t.Outputs) > 5 THEN {NoChange}
    ELSE UNION {
        LET scores == ChangeScores(t, dom)
            voted == {j \in DOMAIN scores : scores[j] > 0}
            best == {j \in voted : \A k \in voted : scores[k] <= scores[j]}
        IN IF voted = {}
           THEN {[NoChange EXCEPT !.IsRoundPayment = IsRoundPayment(t)]}
           ELSE {IF scores[j] >= MinChangeConfidence
                 THEN [ChangeIndex |-> j - 1,
                       Confidence |-> Min2(scores[j], 100),
                       IsRoundPayment |-> IsRoundPayment(t)]
                 ELSE [NoChange EXCEPT !.IsRoundPayment = IsRoundPayment(t)]
                 : j \in best}
        : dom \in DominantTypes(TypeCounts(t.Inputs))}

\* checkBIP69Ordering (wallet_fingerprint.go): inputs by (txid, vout),
\* outputs by (value, scriptPubKey), both ascending
checkBIP69Ordering(t) ==
    LET ins == t.Inputs
        outs == t.Outputs
        inputsSorted ==
            \A i \in 2..Len(ins) :
                ~(StrGreater(ins[i - 1].Txid, ins[i].Txid)
                  \/ (ins[i - 1].Txid = ins[i].Txid
                      /\ U32Greater(ins[i - 1].Vout, ins[i].Vout)))
        outputsSorted ==
            \A j \in 2..Len(outs) :
                ~(outs[j - 1].Value > outs[j].Value
                  \/ (outs[j - 1].Value = outs[j].Value
                      /\ StrGreater(outs[j - 1].ScriptPubKey, outs[j].ScriptPubKey)))
    IN IF Len(ins) <= 1 /\ Len(outs) <= 1 THEN TRUE
       ELSE inputsSorted /\ outputsSorted

LockTimeUnix == 500000000    \* nLockTime values from here on are timestamps

\* tx.LockTime > 0 && tx.LockTime < 500_000_000
LockTimeIsHeight(lt) == lt # U32Zero /\ lt.hi < HalfRange /\ U32Int(lt) < LockTimeUnix

\* DetectWalletFingerprint, for one pair of dominant types the map
\* iterations may have left: the score of each wallet family in hundredths
WalletScores(t, inType, outType) ==
    LET isBIP69 == checkBIP69Ordering(t)
        hasMixedTypes == Cardinality(DOMAIN TypeCounts(t.Inputs)) > 1
                         \/ Cardinality(DOMAIN TypeCounts(t.Outputs)) > 1
        isConsolidation == Len(t.Inputs) >= 5 /\ Len(t.Outputs) = 1
        isBatched == Len(t.Inputs) = 1 /\ Len(t.Outputs) >= 5
        hasRBF == \E i \in 1..Len(t.Inputs) : SignalsRBF(t.Inputs[i].Sequence)
        w(cond, x) == IF cond THEN x ELSE 0
    IN [bitcoin_core |->
            w(inType = "p2wpkh" /\ ~isBIP69, 30)
            + w(inType = "p2wpkh" /\ outType = "p2wpkh", 20)
            + w(inType = "p2pkh", 10) + w(inType = "p2sh", 5)
            + w(LockTimeIsHeight(t.LockTime), 25)
            + w(hasRBF, 10) + w(t.Version = 2, 5),
        electrum |->
            w(isBIP69 /\ inType = "p2wpkh", 40) + w(t.LockTime = U32Zero, 10)
            + w(hasRBF, 15) + w(t.Version = 2, 5),
        wasabi |-> w(hasMixedTypes /\ Len(t.Outputs) >= 10, 30),
        samourai |->
            w(isBIP69, 20) + w(t.LockTime = U32Zero, 10) + w(~hasRBF, 10)
            + w(t.Version = 1, 10),
        sparrow |-> w(inType = "p2tr", 30) + w(inType = "p2tr" /\ outType = "p2tr", 20),
        exchange |-> w(isBatched, 50) + w(isConsolidation, 30)]

MinWalletConfidence == 20

\* DetectWalletFingerprint: the results the call can return.  The family is
\* one of those with the highest score; which of several the map iteration
\* (and float rounding of equal decimal sums) leaves is not determined.
DetectWalletFingerprint(t) ==
    UNION {
        LET scores == WalletScores(t, inType, outType)
            bestScore == SetMax({scores[f] : f \in DOMAIN scores})
        IN {[WalletFamily |-> IF bestScore >= MinWalletConfidence THEN f ELSE "unknown",
             IsBIP69 |-> checkBIP69Ordering(t),
             IsConsolidation |-> Len(t.Inputs) >= 5 /\ Len(t.Outputs) = 1]
            : f \in {g \in DOMAIN scores : scores[g] = bestScore}}
        : inType \in DominantTypes(TypeCounts(t.Inputs)),
          outType \in DominantTypes(TypeCounts(t.Outputs))}

\* entropy_analysis.go countValidMappings: the backtracking enumeration.
\* ins: input values; sorted: output values, descending; used: the set of
\* input indexes taken; count: the mappings counted so far.
MappingCap == 10000

RECURSIVE backtrack(_, _, _, _, _)
RECURSIVE tryInputs(_, _, _, _, _, _)
backtrack(ins, sorted, outIdx, used, count) ==
    IF outIdx > Len(sorted) THEN count + 1
    ELSE IF count >= MappingCap THEN count
    ELSE LET afterInputs == tryInputs(ins, sorted, outIdx, 1, used, count) IN
         IF Len(sorted) > Len(ins)
         THEN backtrack(ins, sorted, outIdx + 1, used, afterInputs)
         ELSE afterInputs

tryInputs(ins, sorted, outIdx, inIdx, used, count) ==
    IF inIdx > Len(ins) THEN count
    ELSE IF inIdx \in used \/ ~(ins[inIdx] >= sorted[outIdx])
    THEN tryInputs(ins, sorted, outIdx, inIdx + 1, used, count)
    ELSE tryInputs(ins, sorted, outIdx, inIdx + 1, used,
                   backtrack(ins, sorted, outIdx + 1, used \cup {inIdx}, count))

countValidMappings(inputs, outputs) ==
    LET asc == SortAsc(Vals(outputs))
        sorted == [k \in 1..Len(asc) |-> asc[Len(asc) + 1 - k]]
    IN backtrack(Vals(inputs), sorted, 1, {}, 0)

\* binomialCoeff
RECURSIVE binomialLoop(_, _, _, _)
binomialLoop(n, k, i, result) ==
    IF i >= k THEN result
    ELSE binomialLoop(n, k, i + 1, (result * (n - i)) \div (i + 1))

binomialCoeff(n, k) ==
    IF k > n \/ k < 0 THEN 0
    ELSE IF k = 0 \/ k = n THEN 1
    ELSE binomialLoop(n, Min2(k, n - k), 0, 1)

\* factorialInt: n!, n capped at 12
FactorialCap == 12
RECURSIVE factorialInt(_)
factorialInt(n) ==
    IF n <= 1 THEN 1
    ELSE IF n > FactorialCap THEN factorialInt(FactorialCap)
    ELSE n * factorialInt(n - 1)

\* a product of positive integers that estimateMappingsLarge caps at 1e9
EstimateCap == 1000000000
CapMul(a, b) == IF a > EstimateCap \div b THEN EstimateCap ELSE a * b

\* estimateMappingsLarge
estimateMappingsLarge(inputs, outputs) ==
    LET groups == Range(Vals(outputs))
        eligible(val) == Cardinality({i \in 1..Len(inputs) : inputs[i].Value >= val})
        factor(val) ==
            LET groupSize == CountOf(Vals(outputs), val) IN
            IF eligible(val) >= groupSize
            THEN CapMul(binomialCoeff(eligible(val), groupSize), factorialInt(groupSize))
            ELSE 1
        RECURSIVE product(_)
        product(S) ==
            IF S = {} THEN 1
            ELSE LET v == CHOOSE x \in S : TRUE IN CapMul(factor(v), product(S \ {v}))
    IN product(groups)

ExactEnumerationMax == 12

\* ComputeBoltzmannEntropy.  The result is carried by its Interpretations
\* count n; the entropy is round2(log2(n)), and 0 on the early returns,
\* which n = 1 stands for.
ComputeBoltzmannEntropy(t) ==
    LET nIn == Len(t.Inputs)
        nOut == Len(t.Outputs)
        interpretations ==
            IF nIn <= ExactEnumerationMax /\ nOut <= ExactEnumerationMax
            THEN countValidMappings(t.Inputs, t.Outputs)
            ELSE estimateMappingsLarge(t.Inputs, t.Outputs)
    IN IF nIn = 0 \/ nOut = 0 THEN 1
       ELSE IF nIn = 1 /\ nOut <= 2 THEN 1
       ELSE Max2(interpretations, 1)

\* Entropy >= 4.0 and Entropy <= 0.5 for Entropy = round2(log2(n))
EntropyHigh(n) == n >= 16
EntropyLow(n) == n <= 1

\* int(math.Min(Entropy*4, 25)) for Entropy = round2(log2(n)) >= 4.0: one
\* more for every threshold of n passed (round2(log2(n)) * 4 reaches 17 at
\* n = 19, 18 at n = 23, ... and 25 at n = 76)
EntropyBoostSteps == {19, 23, 27, 32, 38, 46, 54, 64, 76}
EntropyBoost(n) == 16 + Cardinality({s \in EntropyBoostSteps : n >= s})

\* detectUnnecessaryInputs (change_detection.go): inputs, smallest first,
\* that can be dropped while the rest still covers outputs plus fee
RECURSIVE dropLoop(_, _, _)
dropLoop(sortedInputs, cumulative, totalNeeded) ==
    IF sortedInputs = <<>> THEN 0
    ELSE IF cumulative - Head(sortedInputs) >= totalNeeded
    THEN 1 + dropLoop(Tail(sortedInputs), cumulative - Head(sortedInputs), totalNeeded)
    ELSE dropLoop(Tail(sortedInputs), cumulative, totalNeeded)

detectUnnecessaryInputs(t) ==
    IF Len(t.Inputs) <= 1 THEN 0
    ELSE dropLoop(SortAsc(Vals(t.Inputs)), SeqSum(Vals(t.Inputs)),
                  t.Fee + SeqSum(Vals(t.Outputs)))

\* AnalyzeFeePattern: FeeRate and OverpayRatio in hundredths, and
\* UnnecessaryInputs
AnalyzeFeePattern(t) ==
    [FeeRate |->
        IF t.Vsize > 0 THEN RoundDiv(t.Fee * 100, t.Vsize)
        ELSE IF t.Weight > 0 THEN RoundDiv(t.Fee * 100, (t.Weight + 3) \div 4)
        ELSE 0,
     OverpayRatio |->
        IF t.Fee <= 0 \/ t.Vsize <= 0 THEN 100 ELSE RoundDiv(t.Fee * 100, t.Vsize),
     UnnecessaryInputs |-> detectUnnecessaryInputs(t)]

\* IsSuspiciousFeePattern: overpay > 3.0, fee rate > 100.0, or 3+
\* unnecessary inputs
IsSuspiciousFeePattern(result) ==
    result.OverpayRatio > 300 \/ result.FeeRate > 10000 \/ result.UnnecessaryInputs >= 3

\* DetectPeelChainStep.  Confidence is in hundredths.  Short marks the one
\* combination of signals (0.30 + 0.15 + 0.20 + 0.15) whose float64 sum is
\* 0.7999999999999999, just below the decimal value.
NoPeel == [IsPeelStep |-> FALSE, Confidence |-> 0, Short |-> FALSE]

DetectPeelChainStep(t, isCoinJoin) ==
    IF isCoinJoin \/ Len(t.Outputs) # 2 \/ Len(t.Inputs) < 1 \/ Len(t.Inputs) > 2
    THEN NoPeel
    ELSE
    LET out0 == t.Outputs[1].Value
        out1 == t.Outputs[2].Value
        changeIndex == IF out0 <= out1 THEN 1 ELSE 2
        changeValue == Min2(out0, out1)
        paymentValue == Max2(out0, out1)
        totalInput == SeqSum(Vals(t.Inputs))
        s1 == IF Len(t.Inputs) = 1 THEN 30 ELSE 10
        \* changeRatio < 0.3, else changeRatio < 0.5
        s2 == IF totalInput <= 0 THEN 0
              ELSE IF changeValue * 10 < totalInput * 3 THEN 25
              ELSE IF changeValue * 2 < totalInput THEN 15
              ELSE 0
        inputType == detectAddressType(t.Inputs[1].Address)
        s3 == IF inputType = detectAddressType(t.Outputs[changeIndex].Address)
                 /\ inputType # "unknown" THEN 20 ELSE 0
        s4 == IF isRoundAmount(paymentValue) THEN 15 ELSE 0
        \* 1.0 <= fee / vsize <= 50.0
        s5 == IF t.Fee > 0 /\ t.Vsize > 0 /\ t.Fee >= t.Vsize /\ t.Fee <= 50 * t.Vsize
              THEN 10 ELSE 0
        confidence == Min2(s1 + s2 + s3 + s4 + s5, 100)
    IN IF confidence >= 40
       THEN [IsPeelStep |-> TRUE, Confidence |-> confidence,
             Short |-> <<s1, s2, s3, s4, s5>> = <<30, 15, 20, 15, 0>>]
       ELSE NoPeel

\* detectTimingAnomalies (timing_analysis.go): whether an anomaly is found
detectTimingAnomalies(t) ==
    LET nIn == Len(t.Inputs)
        nOut == Len(t.Outputs)
        addressTypes == {detectAddressType(t.Outputs[j].Address) : j \in 1..nOut}
    IN \/ nIn <= 3 /\ nOut >= 10 /\ Cardinality(addressTypes) >= 2
       \/ nIn >= 50 /\ nOut >= 50
       \/ /\ nIn >= 3 /\ nOut >= 3
          /\ \A i \in 2..nIn : t.Inputs[i].Value = t.Inputs[1].Value
          /\ \A j \in 2..nOut : t.Outputs[j].Value = t.Outputs[1].Value

\* getDustThreshold (dust_analysis.go)
getDustThreshold(addr) ==
    CASE detectAddressType(addr) = "taproot" -> 330
      [] detectAddressType(addr) = "segwit" -> 294
      [] detectAddressType(addr) = "p2sh-segwit" -> 540
      [] OTHER -> 546

isDust(item) == item.Value > 0 /\ item.Value <= getDustThreshold(item.Address)

\* DetectDustAttack with classifyDustIntent
DetectDustAttack(t) ==
    LET dustOuts == {j \in 1..Len(t.Outputs) : isDust(t.Outputs[j])}
        dustIns == {i \in 1..Len(t.Inputs) : isDust(t.Inputs[i])}
        uniqueAddrs == {t.Outputs[j].Address : j \in dustOuts}
        nonDustOutputs ==
            Cardinality({j \in 1..Len(t.Outputs) :
                            t.Outputs[j].Value > getDustThreshold(t.Outputs[j].Address)})
        intent ==
            IF Cardinality(dustOuts) >= 3
            THEN (IF Cardinality(uniqueAddrs) >= 3 THEN "surveillance" ELSE "spam")
            ELSE IF dustIns # {} /\ Len(t.Inputs) > Cardinality(dustIns)
            THEN "consolidation"
            ELSE IF Cardinality(dustOuts) = 1 /\ nonDustOutputs >= 1
            THEN "surveillance"
            ELSE "none"
    IN [HasDustOutputs |-> dustOuts # {},
        HasDustInputs |-> dustIns # {},
        Intent |-> intent]

\* AnalyzeTopology: IsHub, and Shape by classifyTxShape.  IOSymmetry is in
\* hundredths.
AnalyzeTopology(t) ==
    LET fanIn == Len(t.Inputs)
        fanOut == Len(t.Outputs)
        maxIO == Max2(fanIn, fanOut)
        ioSymmetry == IF maxIO > 0 THEN RoundDiv(Abs(fanIn - fanOut) * 100, maxIO) ELSE 0
        shape ==
            IF fanIn <= 2 /\ fanOut <= 2
            THEN (IF fanIn = 1 /\ fanOut = 2 THEN "peel-step" ELSE "simple-payment")
            ELSE IF fanIn >= 3 /\ fanOut = 1 THEN "consolidation"
            ELSE IF fanIn <= 3 /\ fanOut >= 5 THEN "batch-payout"
            ELSE IF ioSymmetry <= 20 /\ fanIn >= 5 /\ fanOut >= 5 THEN "mixing"
            ELSE IF fanIn >= 10 \/ fanOut >= 10 THEN "hub"
            ELSE IF fanIn >= 2 /\ fanOut >= 3 /\ fanOut <= 5 THEN "multi-payment"
            ELSE "complex"
    IN [IsHub |-> fanIn >= 10 \/ fanOut >= 10, Shape |-> shape]

\* classifyMixQuality (coinjoin_unmix.go), the linkability in hundredths
classifyMixQuality(ratio) ==
    IF ratio <= 0 THEN "perfect"
    ELSE IF ratio <= 10 THEN "strong"
    ELSE IF ratio <= 30 THEN "moderate"
    ELSE IF ratio <= 60 THEN "weak"
    ELSE "broken"

\* AnalyzeUnmixability: LinkabilityScore in hundredths and MixQuality
AnalyzeUnmixability(t, isCoinJoin) ==
    IF ~isCoinJoin \/ Len(t.Inputs) < 2 \/ Len(t.Outputs) < 2
    THEN [LinkabilityScore |-> 0, MixQuality |-> "perfect"]
    ELSE
    LET nOut == Len(t.Outputs)
        eligibleInputs(j) ==
            Cardinality({i \in 1..Len(t.Inputs) : t.Inputs[i].Value >= t.Outputs[j].Value})
        deterministic == Cardinality({j \in 1..nOut : eligibleInputs(j) = 1})
        uniqueValued ==
            Cardinality({j \in 1..nOut : CountOf(Vals(t.Outputs), t.Outputs[j].Value) = 1})
        unmixable == Min2(deterministic + uniqueValued, nOut)
        linkability == RoundDiv(unmixable * 100, nOut)
    IN [LinkabilityScore |-> linkability, MixQuality |-> classifyMixQuality(linkability)]

\* Signal weights of CalibratePrivacyScore (exchange_detection.go)
WeightAddressReuse == -40
WeightSimplePayment == -15
WeightDustConsolidate == -30
WeightDustSurveillance == -10
WeightHubTopology == -10

\* int(conf * 15) for the confidence of a peel step
PeelPenalty(peel) == IF peel.Short THEN 11 ELSE (peel.Confidence * 15) \div 100

\* CalibratePrivacyScore: the score before the clamp.  res holds the fields
\* of the analysis result the function reads: AnonSet, Entropy (as its
\* interpretation count), ChangeOutput (NoChange for nil), WalletFamily,
\* PeelChain (NoPeel for nil), DustAnalysis, Topology, UnmixResult
\* (LinkabilityScore 0 for nil) and HeuristicFlags.
CalibratedRaw(res) ==
    100
    + (IF res.AnonSet >= 5 THEN Min2(res.AnonSet * 2, 35)
       ELSE IF res.AnonSet <= 1 THEN -10 ELSE 0)
    + (IF EntropyHigh(res.Entropy) THEN EntropyBoost(res.Entropy)
       ELSE IF EntropyLow(res.Entropy) THEN -10 ELSE 0)
    - (IF res.ChangeOutput.ChangeIndex >= 0
       THEN (res.ChangeOutput.Confidence * 25) \div 100 ELSE 0)
    - (IF res.WalletFamily \notin {"", "unknown"} THEN 15 ELSE 0)
    - (IF res.PeelChain.IsPeelStep THEN PeelPenalty(res.PeelChain) ELSE 0)
    + (IF res.DustAnalysis.Intent = "consolidation" THEN WeightDustConsolidate
       ELSE IF res.DustAnalysis.Intent = "surveillance" THEN WeightDustSurveillance
       ELSE 0)
    + (IF res.Topology.IsHub THEN WeightHubTopology ELSE 0)
    + (IF res.Topology.Shape \in {"peel-step", "simple-payment"}
       THEN WeightSimplePayment ELSE 0)
    - (IF res.UnmixResult.LinkabilityScore > 0
       THEN (res.UnmixResult.LinkabilityScore * 30) \div 100 ELSE 0)
    + (IF "FlagAddressReuse" \in res.HeuristicFlags THEN WeightAddressReuse ELSE 0)

\* CalibratePrivacyScore: the clamped score it stores in res.PrivacyScore,
\* the Traceability of the breakdown in hundredths, and the flags after it
CalibratePrivacyScore(res) ==
    LET score == Max2(0, Min2(100, CalibratedRaw(res)))
        traceability == RoundDiv((100 - score) * 100, 100)
    IN [PrivacyScore |-> score,
        Traceability |-> traceability,
        HeuristicFlags |->
            res.HeuristicFlags \cup FlagIf(traceability >= 80, "FlagHighTraceability")]

\* value of a hex digit as estimateInputAge reads it (0 for other bytes)
HexDigits == <<"0", "1", "2", "3", "4", "5", "6", "7", "8", "9">>
HexLetters == <<"a", "b", "c", "d", "e", "f">>
HexUpper == <<"A", "B", "C", "D", "E", "F">>
HexVal(c) ==
    IF \E k \in 1..10 : HexDigits[k] = c THEN (CHOOSE k \in 1..10 : HexDigits[k] = c) - 1
    ELSE IF \E k \in 1..6 : HexLetters[k] = c
    THEN (CHOOSE k \in 1..6 : HexLetters[k] = c) + 9
    ELSE IF \E k \in 1..6 : HexUpper[k] = c THEN (CHOOSE k \in 1..6 : HexUpper[k] = c) + 9
    ELSE 0

\* estimateInputAge (UTXO age module): the age in blocks,
\* offset % spendingHeight for the offset spelled by the first 8 hex digits
\* of the txid.  The remainder is taken digit by digit, which gives the
\* same value and keeps the numbers small.
RECURSIVE offsetMod(_, _, _)
offsetMod(digits, acc, height) ==
    IF digits = <<>> THEN acc
    ELSE offsetMod(Tail(digits), (acc * 16 + HexVal(Head(digits))) % height, height)

estimateInputAge(in, spendingHeight) ==
    IF spendingHeight <= 0 \/ Len(in.Txid) < 8 THEN 0
    ELSE offsetMod(SubSeq(in.Txid, 1, 8), 0, spendingHeight)

BlocksPerDay == 144
AncientDays == 365

\* AnalyzeUTXOAge: HasAncientUTXO and whether HoldingPattern is "ancient".
\* Ages are in blocks; a day is 144 blocks; the average age is rounded to
\* hundredths of a day.
AnalyzeUTXOAge(t) ==
    LET ages == {i \in 1..Len(t.Inputs) : estimateInputAge(t.Inputs[i], t.BlockHeight) > 0}
        age(i) == estimateInputAge(t.Inputs[i], t.BlockHeight)
        total == SumOver(ages, [i \in ages |-> age(i)])
        avgAgeCentiDays == RoundDiv(total * 25, 36 * Cardinality(ages))
    IN IF t.BlockTime <= 0 \/ ages = {}
       THEN [HasAncientUTXO |-> FALSE, Ancient |-> FALSE]
       ELSE [HasAncientUTXO |-> \E i \in ages : age(i) > AncientDays * BlocksPerDay,
             Ancient |-> avgAgeCentiDays >= AncientDays * 100]

\* knownServiceFees (value_fingerprint.go), the zero entries left out as
\* matchKnownServiceFee skips them
knownServiceFees ==
    {50000, 40000, 30000, 20000, 1000, 2000, 5000, 10000, 15000, 4000, 6000}

\* matchKnownServiceFee: whether the result differs from "none"
matchKnownServiceFee(t) ==
    /\ t.Fee > 0
    /\ \/ \E knownFee \in knownServiceFees :
              LET tolerance == Max2(knownFee \div 20, 100) IN
              t.Fee >= knownFee - tolerance /\ t.Fee <= knownFee + tolerance
       \/ t.Fee >= 10000 /\ t.Fee <= 100000 /\ t.Fee % 1000 = 0

\* isMultisigScript (script template inspection)
isMultisigScript(script) ==
    LET lower == ToLower(script) IN
    /\ Len(script) >= 10
    /\ Contains(lower, <<"a", "e">>)
    /\ \E d \in {"1", "2", "3", "4", "5"} : HasPrefix(lower, <<"5", d>>)

\* isOPReturn
isOPReturn(scriptPubKey) == HasPrefix(ToLower(scriptPubKey), <<"6", "a">>)

\* AnalyzeScriptTemplates: HasMultisig and HasOPReturn
AnalyzeScriptTemplates(t) ==
    [HasMultisig |->
        \/ \E i \in 1..Len(t.Inputs) : isMultisigScript(t.Inputs[i].ScriptSig)
        \/ \E j \in 1..Len(t.Outputs) : isMultisigScript(t.Outputs[j].ScriptPubKey),
     HasOPReturn |-> \E j \in 1..Len(t.Outputs) : isOPReturn(t.Outputs[j].ScriptPubKey)]

\* countEqualInputValues (ssmp.go): the largest number of inputs sharing
\* one positive value
countEqualInputValues(inputs) ==
    SetMax({0} \cup {CountOf(Vals(inputs), v) : v \in {x \in Range(Vals(inputs)) : x > 0}})

\* lightningChannelSizes (lightning_detection.go)
lightningChannelSizes ==
    {100000, 200000, 500000, 1000000, 2000000, 5000000, 10000000, 16777215,
     50000000, 100000000}

\* isChannelSize: a channel size within 1%
isChannelSize(value) ==
    \E size \in lightningChannelSizes :
        value >= size - size \div 100 /\ value <= size + size \div 100

P2WSHScriptLen == 68

\* detectLNFunding
detectLNFunding(t) ==
    /\ ~(Len(t.Inputs) > 3 \/ Len(t.Outputs) < 1 \/ Len(t.Outputs) > 3)
    /\ \E j \in 1..Len(t.Outputs) :
           detectAddressType(t.Outputs[j].Address) = "segwit"
           /\ Len(t.Outputs[j].ScriptPubKey) = P2WSHScriptLen
    /\ \E j \in 1..Len(t.Outputs) : isChannelSize(t.Outputs[j].Value)

\* detectCooperativeClose
detectCooperativeClose(t) ==
    /\ Len(t.Inputs) = 1 /\ Len(t.Outputs) = 2
    /\ \A j \in 1..2 : detectAddressType(t.Outputs[j].Address) \in {"segwit", "taproot"}
    /\ Len(t.Inputs[1].ScriptSig) = 0

\* detectForceClose
detectForceClose(t) ==
    /\ Len(t.Inputs) = 1
    /\ \E j \in 1..Len(t.Outputs) : Contains(ToLower(t.Outputs[j].ScriptPubKey), <<"b", "2">>)

\* detectPenaltyTx
detectPenaltyTx(t) == Len(t.Inputs) >= 1 /\ Len(t.Outputs) = 1

\* DetectLightningChannel: IsLightningTx
DetectLightningChannel(t) ==
    detectLNFunding(t) \/ detectCooperativeClose(t) \/ detectForceClose(t)
    \/ detectPenaltyTx(t)

NullTxid == Repeat("0", 64)

\* isCoinbaseTx (coinbase_analysis.go)
isCoinbaseTx(t) ==
    /\ Len(t.Inputs) = 1
    /\ \/ t.Inputs[1].Txid = <<>>
       \/ t.Inputs[1].Txid = NullTxid
       \/ t.Inputs[1].Vout = U32(HalfMax, HalfMax)

\* DetectAddressMigration: HasMixedTypes, and whether MigrationStage is
\* "taproot-adopter" (TaprootRatio > 0.5)
DetectAddressMigration(t) ==
    LET n == Len(t.Inputs)
        count(ty) == Cardinality({i \in 1..n : detectAddressType(t.Inputs[i].Address) = ty})
        nonZeroTypes ==
            Cardinality({ty \in {"legacy", "segwit", "taproot", "p2sh-segwit"} : count(ty) > 0})
    IN IF n = 0 THEN [HasMixedTypes |-> FALSE, TaprootAdopter |-> FALSE]
       ELSE [HasMixedTypes |-> nonZeroTypes > 1, TaprootAdopter |-> 2 * count("taproot") > n]

\* AnalyzeConsolidation: IsConsolidation
AnalyzeConsolidation(t) == ~(Len(t.Inputs) < 3 \/ Len(t.Outputs) > 2)

\* CheckInputsForTaint (taint_seed.go): isHighRisk.  Taint levels are in hundredths;
\* taintMap is the global map (the empty function when nil or empty).
CheckInputsForTaint(t, taints) ==
    LET counted == {i \in 1..Len(t.Inputs) :
                       TrimSpace(t.Inputs[i].Address) # <<>> /\ t.Inputs[i].Value > 0}
        known == {i \in counted : TrimSpace(t.Inputs[i].Address) \in DOMAIN taints}
        totalIn == SumOver(counted, [i \in counted |-> t.Inputs[i].Value])
        weightedTaint ==
            SumOver(known, [i \in known |->
                               taints[TrimSpace(t.Inputs[i].Address)] * t.Inputs[i].Value])
        maxTaint == SetMax({0} \cup {taints[TrimSpace(t.Inputs[i].Address)] : i \in known})
        posOuts == {j \in 1..Len(t.Outputs) : t.Outputs[j].Value > 0}
        totalOut == SumOver(posOuts, [j \in posOuts |-> t.Outputs[j].Value])
        denom == Max2(totalIn, totalOut)
    IN IF DOMAIN taints = {} \/ denom <= 0 THEN FALSE
       ELSE weightedTaint * 4 >= denom * 100 \/ maxTaint >= 85

\* detectBotBehavior (ssmp.go): at least two of three signals
detectBotBehavior(t) ==
    LET outs == t.Outputs
        roundOutputs ==
            Cardinality({j \in 1..Len(outs) : outs[j].Value > 0 /\ outs[j].Value % 1000000 = 0})
        signal(cond) == IF cond THEN 1 ELSE 0
    IN signal(roundOutputs >= 3)
       + signal(Len(outs) > 20)
       + signal(Len(outs) >= 3 /\ \A j \in 2..Len(outs) : outs[j].Value = outs[1].Value)
       >= 2

\* the three ways steps 18 to 29 adjust res.PrivacyScore: a bonus capped at
\* 100, a penalty floored at 0, and a plain subtraction
Bonus(cond, score, d) == IF cond THEN Min2(100, score + d) ELSE score

Penalty(cond, score, d) == IF cond THEN Max2(0, score - d) ELSE score

Subtract(cond, score, d) == IF cond THEN score - d ELSE score

\* AnalyzeTx, steps 18 to 30 and the return: calibrated is what
\* CalibratePrivacyScore left at step 17
AfterCalibration(t, taints, call, anonSet, isCj, calibrated) ==
    LET \* steps 18 to 21
        utxoAge == AnalyzeUTXOAge(t)
        scriptResult == AnalyzeScriptTemplates(t)
        s21a == Bonus(utxoAge.Ancient, calibrated.PrivacyScore, 5)
        s21 == Subtract(scriptResult.HasMultisig, s21a, 5)
        \* step 22
        edges == GenerateCIOHEdges(t.Inputs, isCj, 0, call)
        \* step 24
        postMix == ~isCj /\ Len(t.Inputs) >= 2 /\ countEqualInputValues(t.Inputs) >= 2
        s24 == Penalty(postMix, s21, 10)
        \* step 25
        lightning == DetectLightningChannel(t)
        s25 == Bonus(lightning, s24, 10)
        \* step 27
        migration == DetectAddressMigration(t)
        s27a == Subtract(migration.HasMixedTypes, s25, 3)
        s27 == Bonus(migration.TaprootAdopter, s27a, 5)
        \* step 28
        consolidation == AnalyzeConsolidation(t)
        s28 == Penalty(consolidation, s27, 8)
        \* step 29
        isHighRisk == CheckInputsForTaint(t, taints)
        s29 == Penalty(isHighRisk, s28, 15)
    IN [panic |-> FALSE,
        PrivacyScore |-> s29,
        AnonSet |-> anonSet,
        HeuristicFlags |->
            calibrated.HeuristicFlags
            \cup FlagIf(utxoAge.HasAncientUTXO, "FlagAncientUTXO")
            \cup FlagIf(matchKnownServiceFee(t), "FlagKnownServicePattern")
            \cup FlagIf(scriptResult.HasMultisig, "FlagIsMultisig")
            \cup FlagIf(scriptResult.HasOPReturn, "FlagHasOPReturn")
            \cup FlagIf(postMix, "FlagPostMixLeakage")
            \cup FlagIf(lightning, "FlagLightningChannel")
            \cup FlagIf(isCoinbaseTx(t), "FlagIsCoinbase")
            \cup FlagIf(consolidation, "FlagStrategicConsolidation")
            \cup FlagIf(isHighRisk, "FlagHighRisk")
            \cup FlagIf(detectBotBehavior(t), "FlagBotBehavior"),
        Edges |-> edges,
        Inference |-> IF Len(edges) > 0 THEN EvaluateFactorGraph(edges) ELSE NoInference,
        Traceability |-> calibrated.Traceability]

\* AnalyzeTx after the three calls whose result depends on the iteration
\* order of a Go map have returned anon (CalculateAnonSet), change
\* (DetectChangeOutput) and wallet (DetectWalletFingerprint).  call numbers
\* the invocation, for the identifiers uuid.New() hands out.
\*
\* CalibratePrivacyScore (step 17) overwrites res.PrivacyScore without
\* reading it, so the score adjustments of steps 2 to 16 do not reach the
\* result and are not carried; res.WalletFamily is "" or a detected family
\* at steps 11 and 13, never "unknown", so their wallet-hint stores do not
\* execute.  Of the result, PrivacyScore, AnonSet, HeuristicFlags, Edges,
\* Inference and the Traceability of the score breakdown are carried.
AnalyzeTxWith(t, taints, call, anon, change, wallet) ==
    LET nIn == Len(t.Inputs)
        nOut == Len(t.Outputs)
        \* step 1
        anonSet == IF nIn > SolverCap \/ nOut > SolverCap
                   THEN CalculateAnonSetHardware(t) ELSE anon.value
        \* step 2
        isCj == nIn >= 5 /\ nOut >= 5 /\ anonSet >= 5
        \* step 7
        changeResult == IF ~isCj /\ nOut >= 2 /\ nOut <= 5 THEN change ELSE NoChange
        changeOutput == IF changeResult.ChangeIndex >= 0 THEN changeResult ELSE NoChange
        \* step 8
        walletFamily == IF wallet.WalletFamily # "unknown" THEN wallet.WalletFamily ELSE ""
        \* steps 10 to 16
        entropy == ComputeBoltzmannEntropy(t)
        peel == IF ~isCj THEN DetectPeelChainStep(t, isCj) ELSE NoPeel
        dust == DetectDustAttack(t)
        topo == AnalyzeTopology(t)
        unmix == IF isCj THEN AnalyzeUnmixability(t, isCj)
                 ELSE [LinkabilityScore |-> 0, MixQuality |-> "perfect"]
        flags16 ==
            FlagIf(isCj, "FlagLikelyCollabConstruct")
            \cup FlagIf(hasReuse(t.Inputs), "FlagAddressReuse")
            \cup DeterministicFlags(t.Inputs)
            \cup ProtocolFlags(t, isCj, anonSet)
            \cup Evaluate(t)
            \cup FlagIf(changeOutput.ChangeIndex >= 0, "FlagLikelyChange")
            \cup FlagIf(changeOutput.ChangeIndex >= 0 /\ changeOutput.IsRoundPayment,
                        "FlagHasRoundPayment")
            \cup FlagIf(wallet.IsBIP69, "FlagIsBIP69")
            \cup FlagIf(wallet.IsConsolidation, "FlagIsConsolidation")
            \cup FlagIf(EntropyHigh(entropy), "FlagHighEntropy")
            \cup FlagIf(IsSuspiciousFeePattern(AnalyzeFeePattern(t)),
                        "FlagSuspiciousFeePattern")
            \cup FlagIf(peel.IsPeelStep, "FlagIsPeelChain")
            \cup FlagIf(detectTimingAnomalies(t), "FlagTimingAnomaly")
            \cup FlagIf(dust.HasDustOutputs /\ dust.Intent = "surveillance",
                        "FlagDustAttackSuspect")
            \cup FlagIf(dust.HasDustInputs /\ dust.Intent = "consolidation",
                        "FlagDustConsolidation")
            \cup FlagIf(topo.IsHub, "FlagIsHubTransaction")
            \cup FlagIf(isCj /\ unmix.MixQuality \in {"weak", "broken"}, "FlagWeakMix")
        \* step 17
        calibrated ==
            CalibratePrivacyScore(
                [AnonSet |-> anonSet, Entropy |-> entropy, ChangeOutput |-> changeOutput,
                 WalletFamily |-> walletFamily, PeelChain |-> peel, DustAnalysis |-> dust,
                 Topology |-> topo, UnmixResult |-> unmix, HeuristicFlags |-> flags16])
    IN AfterCalibration(t, taints, call, anonSet, isCj, calibrated)

TxPanic ==
    [panic |-> TRUE, PrivacyScore |-> 0, AnonSet |-> 0, HeuristicFlags |-> {},
     Edges |-> <<>>, Inference |-> NoInference, Traceability |-> 0]

\* AnalyzeTx: every result the call can produce; it panics when
\* CalculateAnonSet does
AnalyzeTx(t, taints, call) ==
    LET large == Len(t.Inputs) > SolverCap \/ Len(t.Outputs) > SolverCap
        anons == IF large THEN {NoResult}
                 ELSE CalculateAnonSetOutcomes(t.Inputs, t.Outputs, t.Fee, t.Vsize)
    IN {IF anon.panic THEN TxPanic
        ELSE AnalyzeTxWith(t, taints, call, anon, change, wallet) :
            anon \in anons,
            change \in DetectChangeOutput(t),
            wallet \in DetectWalletFingerprint(t)}

-----------------------------------------------------------------------------
(* Specification SpecTx: two calls of AnalyzeTx on one transaction *)

MaxTxIn == 2     \* longest enumerated input list of a transaction
MaxTxOut == 2    \* longest enumerated output list of a transaction

SeqFinal == U32(HalfMax, HalfMax)

TxidA == <<"0", "0", "0", "0", "1", "0", "0", "0">>

AddrTaprootA == <<"b", "c", "1", "p", "a">>

\* a 2-of-2 bare multisig script: OP_2 ... OP_2 OP_CHECKMULTISIG
ScriptMultisig == <<"5", "2", "2", "1", "0", "2", "2", "1", "0", "3", "5", "2", "a", "e">>

TxIn(value, addr) ==
    [Txid |-> TxidA, Vout |-> U32Zero, Value |-> value, Address |-> addr,
     ScriptSig |-> <<>>, Sequence |-> SeqFinal]

TxOut(value, addr, script) ==
    [Value |-> value, Address |-> addr, ScriptPubKey |-> script]

Transaction(inputs, outputs, fee, vsize) ==
    [Txid |-> TxidA, Inputs |-> inputs, Outputs |-> outputs, Fee |-> fee,
     Weight |-> 4 * vsize, Vsize |-> vsize, LockTime |-> U32Zero, Version |-> 2,
     BlockHeight |-> 0, BlockTime |-> 0]

\* inputs: a dust value and a payment-sized value, on a legacy and on a
\* native-segwit address
TxInSet == {TxIn(v, a) : v \in {300, 100000}, a \in {AddrLegacyA, AddrSegwitA}}

\* outputs: two values, with and without a multisig script
TxOutSet == {TxOut(v, AddrSegwitB, s) : v \in {40000, 1000000}, s \in {<<>>, ScriptMultisig}}

TxInLists == UNION {[1..n -> TxInSet] : n \in 0..MaxTxIn}

TxOutLists == UNION {[1..n -> TxOutSet] : n \in 0..MaxTxOut}

SmallTxs == {Transaction(i, o, 1000, 200) : i \in TxInLists, o \in TxOutLists}

\* transactions beyond the solver cap: SolverCap + 1 equal outputs, funded
\* by one input or by as many inputs as outputs
LargeTxs ==
    {Transaction(Repeat(TxIn(100000 + 100, AddrSegwitA), n),
                 Repeat(TxOut(100000, AddrSegwitB, <<>>), SolverCap + 1), 1600, 1600) :
        n \in {1, SolverCap + 1}}

\* transactions whose outputs have two values of the same, highest
\* multiplicity
TiedTxs ==
    {Transaction(<<TxIn(a, AddrSegwitA), TxIn(b, AddrSegwitB)>>,
                 <<TxOut(100, AddrSegwitA, <<>>), TxOut(100, AddrSegwitB, <<>>),
                   TxOut(2500, AddrSegwitA, <<>>), TxOut(2500, AddrSegwitB, <<>>)>>,
                 0, 100) :
        a \in {1100, 2500}, b \in {100, 2500}}

\* an input whose previous output could not be resolved: no address
AddrUnknown == <<>>

\* a five-party equal-output mix, a taproot spend, a spend to two
\* zero-valued outputs, and a spend of two inputs of unknown address
OtherTxs ==
    {Transaction(Repeat(TxIn(100000 + 100, AddrSegwitA), 5),
                 Repeat(TxOut(100000, AddrSegwitB, <<>>), 5), 500, 500),
     Transaction(<<TxIn(100000, AddrTaprootA), TxIn(300, AddrLegacyA)>>,
                 <<TxOut(40000, AddrSegwitB, <<>>)>>, 1000, 200),
     Transaction(<<TxIn(100000, AddrSegwitA)>>,
                 <<TxOut(0, AddrSegwitB, <<>>), TxOut(0, AddrSegwitB, <<>>)>>, 1000, 200),
     Transaction(<<TxIn(100000, AddrUnknown), TxIn(300, AddrUnknown)>>,
                 <<TxOut(40000, AddrSegwitB, <<>>)>>, 1000, 200)}

TxUniverse == SmallTxs \cup LargeTxs \cup TiedTxs \cup OtherTxs

\* contents of the global taint map: nil or empty, and one seeded address at
\* full and at half taint
TaintMaps == {<<>>} \cup {[a \in {AddrLegacyA} |-> lvl] : lvl \in {50, 100}}

InitTx ==
    /\ pc = "analyze"
    /\ tx \in TxUniverse
    /\ taintMap \in TaintMaps
    /\ txRes = <<>>
    /\ txRes2 = <<>>
    /\ AnonIdle
    /\ FgIdle
    /\ RestIdle

\* the first call of AnalyzeTx
CallAnalyzeTx ==
    /\ pc = "analyze"
    /\ \E r \in AnalyzeTx(tx, taintMap, 1) :
          /\ txRes' = r
          /\ pc' = IF r.panic THEN "panicked" ELSE "analyzed"
    /\ UNCHANGED <<tx, taintMap, txRes2, anonVars, fgVars, restVars>>

\* a second call on the same transaction, nothing changed in between
CallAnalyzeTxAgain ==
    /\ pc = "analyzed"
    /\ \E r \in AnalyzeTx(tx, taintMap, 2) :
          /\ txRes2' = r
          /\ pc' = IF r.panic THEN "panicked" ELSE "analyzed_twice"
    /\ UNCHANGED <<tx, taintMap, txRes, anonVars, fgVars, restVars>>

NextTx == CallAnalyzeTx \/ CallAnalyzeTxAgain

SpecTx == InitTx /\ [][NextTx]_vars

\* the first call of AnalyzeTx has returned a result
Analyzed == pc \in {"analyzed", "analyzed_twice"}

\* C1: for every transaction and every content of the global taint map, the
\* privacy score in the result AnalyzeTx returns is at least 0 and at most
\* 100.
C1_ScoreInRange ==
    Analyzed => (txRes.PrivacyScore >= 0 /\ txRes.PrivacyScore <= 100)

\* C3: for a transaction with more than 15 inputs or more than 15 outputs,
\* the anon set AnalyzeTx stores in its result is the multiplicity of the
\* most frequent output value.
C3_LargeTxFallback ==
    (Analyzed /\ (Len(tx.Inputs) > SolverCap \/ Len(tx.Outputs) > SolverCap)) =>
        txRes.AnonSet = ModalCount(tx.Outputs)

WithoutEdgeID(edges) == [k \in DOMAIN edges |-> [edges[k] EXCEPT !.EdgeID = <<>>]]

\* C7: two calls of AnalyzeTx on the same transaction, with the taint map
\* unchanged in between, return the same heuristic flags, privacy score,
\* anon set and list of edges, the edge identifiers aside.
C7_Deterministic ==
    pc = "analyzed_twice" =>
        /\ txRes2.HeuristicFlags = txRes.HeuristicFlags
        /\ txRes2.PrivacyScore = txRes.PrivacyScore
        /\ txRes2.AnonSet = txRes.AnonSet
        /\ WithoutEdgeID(txRes2.Edges) = WithoutEdgeID(txRes.Edges)

-----------------------------------------------------------------------------
(* Cross-transaction evidence propagation (timing_analysis.go)             *)
(* LLRs are in thousandths, decay factors in hundredths.                   *)

EdgeTypeTransitive == 10
DefaultHopDecay == 76
MaxPropagationHops == 5
MinTransitiveLLR == 500

\* math.Pow(hopDecay, k) in ten-thousandths, rounded at each step
RECURSIVE DecayPow(_, _)
DecayPow(hopDecay, k) ==
    IF k = 0 THEN 10000 ELSE RoundDiv(DecayPow(hopDecay, k - 1) * hopDecay, 100)

\* the value with math.Round(x*100)/100 applied, still in thousandths
RoundCenti(milli) == RoundDiv(milli, 10) * 10

\* PropagateEvidence: the propagated edge, <<>> for nil.  Confidence (the
\* posterior LLRToProb gives) is not carried.
PropagateEvidence(chain, hopDecay) ==
    LET decay == IF hopDecay <= 0 \/ hopDecay > 100 THEN DefaultHopDecay ELSE hopDecay
        hops == Len(chain)
        totalLLR == SeqSum([i \in 1..hops |-> chain[i].LLRScore])
        decayedLLR == RoundDiv(totalLLR * DecayPow(decay, hops - 1), 10000)
    IN IF hops < 2 THEN <<>>
       ELSE IF hops > MaxPropagationHops THEN <<>>
       ELSE IF decayedLLR < MinTransitiveLLR THEN <<>>
       ELSE [OriginalEdges |->
                [i \in 1..hops |->
                    [Txid |-> chain[i].EdgeID, FromAddr |-> chain[i].SrcNodeID,
                     ToAddr |-> chain[i].DstNodeID, LLR |-> chain[i].LLRScore,
                     EdgeType |-> chain[i].EdgeType, HopNumber |-> i]],
             TotalLLR |-> RoundCenti(totalLLR),
             DecayedLLR |-> RoundCenti(decayedLLR),
             Hops |-> hops,
             SourceAddr |-> chain[1].SrcNodeID,
             SinkAddr |-> chain[hops].DstNodeID]

\* models.EvidenceEdge{}: every field at its zero value
ZeroEdge ==
    [EdgeID |-> <<>>, CreatedHeight |-> 0, SrcNodeID |-> <<>>, DstNodeID |-> <<>>,
     EdgeType |-> 0, LLRScore |-> 0, DependencyGroup |-> 0, SnapshotID |-> 0,
     AuditHash |-> <<>>]

\* BuildTransitiveEdge: the fields the composite literal does not name keep
\* their zero value
BuildTransitiveEdge(prop) ==
    IF prop = <<>> THEN ZeroEdge
    ELSE [ZeroEdge EXCEPT !.SrcNodeID = prop.SourceAddr, !.DstNodeID = prop.SinkAddr,
                          !.EdgeType = EdgeTypeTransitive, !.LLRScore = prop.DecayedLLR,
                          !.DependencyGroup = DepGroupNone]

-----------------------------------------------------------------------------
(* Specification SpecProp: a chain of edges propagated into a transitive edge *)

MaxChain == 6    \* longest chain of evidence edges offered

\* the k-th address along a chain
ChainNode(k) == <<"1">> \o Repeat("A", k)

\* LLR scores of the chain's edges: the CIOH score, its negation, a weak one
ChainLLRSet == {ProbToLLR(95), 0 - ProbToLLR(95), 200}

\* chains whose k-th edge createEdge built for the hop from node k to k + 1
EvidenceChains ==
    UNION {{[k \in 1..n |->
                createEdge(Uuid(k, 1), ChainNode(k), ChainNode(k + 1), EdgeTypeCIOH,
                           llrs[k], DepGroupScriptHomogeneity, 0)] :
            llrs \in [1..n -> ChainLLRSet]} : n \in 0..MaxChain}

\* hopDecay arguments: out of range (replaced by the default), 0.5, the default
HopDecaySet == {0, 50, DefaultHopDecay}

InitProp ==
    /\ pc = "propagate"
    /\ propChain \in EvidenceChains
    /\ propDecay \in HopDecaySet
    /\ propRes = <<>>
    /\ propEdge = <<>>
    /\ AnonIdle
    /\ FgIdle
    /\ TxIdle
    /\ LockIdle
    /\ ScoreIdle
    /\ AlertIdle
    /\ FlowIdle
    /\ LateIdle

CallPropagateEvidence ==
    /\ pc = "propagate"
    /\ propRes' = PropagateEvidence(propChain, propDecay)
    /\ pc' = "propagated"
    /\ UNCHANGED <<propChain, propDecay, propEdge, anonVars, fgVars, txVars, lockVars, scoreVars, alertVars, flowVars, lateVars>>

CallBuildTransitiveEdge ==
    /\ pc = "propagated"
    /\ propEdge' = BuildTransitiveEdge(propRes)
    /\ pc' = "built"
    /\ UNCHANGED <<propChain, propDecay, propRes, anonVars, fgVars, txVars, lockVars, scoreVars, alertVars, flowVars, lateVars>>

NextProp == CallPropagateEvidence \/ CallBuildTransitiveEdge

SpecProp == InitProp /\ [][NextProp]_vars

\* C11: every evidence edge the engine produces, the edges createEdge builds
\* and the transitive edge BuildTransitiveEdge builds, carries the snapshot
\* id CurrentSnapshotID.
C11_SnapshotStamped ==
    /\ \A k \in 1..Len(propChain) : propChain[k].SnapshotID = CurrentSnapshotID
    /\ (pc = "built" /\ propRes # <<>>) => propEdge.SnapshotID = CurrentSnapshotID
\* ---------------------------------------------------------------------
\* The global taint map and the address watchlist under concurrent use
\* (taint_seed.go, address_watchlist.go).  Taint levels are hundredths.
\* A nil map and an empty map are both <<>>.  One thread (writer) calls
\* the seeding functions or Add/Remove, one (checker) calls
\* CheckInputsForTaint or CheckTransaction, and InitGlobalTaintMap may be
\* called at any moment.  Label, CaseID and AddedAt of a watched address
\* are not carried.
\* ---------------------------------------------------------------------

\* the loop variables of CheckInputsForTaint before the first input
TaintAcc0 == [totalIn |-> 0, weightedTaint |-> 0, maxTaint |-> 0]

\* the input loop with an input counted whether or not it has an address
TaintLookup_CountBlank(acc, input, taints) ==
    LET addr == TrimSpace(input.Address) IN
    IF input.Value <= 0 THEN acc
    ELSE LET counted == [acc EXCEPT !.totalIn = @ + input.Value] IN
         IF addr \in DOMAIN taints
         THEN [counted EXCEPT !.weightedTaint = @ + taints[addr] * input.Value,
                              !.maxTaint = Max2(@, taints[addr])]
         ELSE counted

\* one iteration of the input loop of CheckInputsForTaint
TaintLookup(acc, input, taints) ==
    LET addr == TrimSpace(input.Address) IN
    IF addr = <<>> THEN acc
    ELSE IF input.Value <= 0 THEN acc
    ELSE LET counted == [acc EXCEPT !.totalIn = @ + input.Value] IN
         IF addr \in DOMAIN taints
         THEN [counted EXCEPT !.weightedTaint = @ + taints[addr] * input.Value,
                              !.maxTaint = Max2(@, taints[addr])]
         ELSE counted

\* the return value (0, false) of CheckInputsForTaint; the exposure is the
\* fraction exposureNum / exposureDen
NoExposure == [exposureNum |-> 0, exposureDen |-> 1, isHighRisk |-> FALSE]

RECURSIVE PositiveOutputs(_)
PositiveOutputs(outputs) ==
    IF outputs = <<>> THEN 0
    ELSE (IF Head(outputs).Value > 0 THEN Head(outputs).Value ELSE 0)
         + PositiveOutputs(Tail(outputs))

\* CheckInputsForTaint after the input loop: the output sum, the
\* denominator and the verdict
TaintVerdict(acc, outputs) ==
    LET totalOut == PositiveOutputs(outputs)
        denom == Max2(acc.totalIn, totalOut)
    IN IF denom <= 0 THEN NoExposure
       ELSE [exposureNum |-> acc.weightedTaint, exposureDen |-> 100 * denom,
             isHighRisk |-> acc.weightedTaint * 4 >= denom * 100 \/ acc.maxTaint >= 85]

\* one iteration of the loop of SeedFromInvestigationAddresses
SeedInvestigationAddress(taints, raw) ==
    LET addr == TrimSpace(raw) IN
    IF addr = <<>> \/ addr \in DOMAIN taints THEN taints
    ELSE [a \in DOMAIN taints \cup {addr} |-> IF a = addr THEN 100 ELSE taints[a]]

\* one iteration of the loop of SeedFromExternalIntel
SeedIntelSource(taints, src) ==
    LET addr == TrimSpace(src.Address) IN
    IF addr = <<>> THEN taints
    ELSE IF addr \notin DOMAIN taints \/ src.TaintLevel > taints[addr]
    THEN [a \in DOMAIN taints \cup {addr} |->
             IF a = addr THEN src.TaintLevel ELSE taints[a]]
    ELSE taints

\* AddressWatchlist.Add and Remove on the addresses map
WatchAdd(addresses, addr, category, alertLevel) ==
    [a \in DOMAIN addresses \cup {addr} |->
        IF a = addr THEN [Address |-> addr, Category |-> category, AlertLevel |-> alertLevel]
        ELSE addresses[a]]

WatchRemove(addresses, addr) == [a \in DOMAIN addresses \ {addr} |-> addresses[a]]

\* one iteration of either loop of CheckTransaction
WatchLookup(hits, io, direction, addresses) ==
    IF io.Address = <<>> THEN hits
    ELSE IF io.Address \in DOMAIN addresses
    THEN Append(hits, [Address |-> io.Address,
                       Category |-> addresses[io.Address].Category,
                       Direction |-> direction, Value |-> io.Value,
                       AlertLevel |-> addresses[io.Address].AlertLevel])
    ELSE hits

MaxSeedLen == 2
MaxCalls == 2

AddrPadded == <<" ">> \o AddrSegwitA
AddrBlank == <<" ">>
SeedAddrs == {AddrLegacyA, AddrPadded, AddrBlank}
IntelLevels == {-20, 50, 150}
IntelSources == {[Address |-> a, TaintLevel |-> l] : a \in SeedAddrs, l \in IntelLevels}
SeqsUpTo(S, n) == UNION {[1..k -> S] : k \in 0..n}

\* the transactions the checker is called with: two known inputs, and one
\* input without an address
CheckTxs ==
    {Transaction(<<TxIn(100000, AddrLegacyA), TxIn(300, AddrSegwitA)>>,
                 <<TxOut(100000, AddrSegwitB, <<>>)>>, 300, 200),
     Transaction(<<TxIn(300, AddrSegwitA), TxIn(100000, <<>>)>>,
                 <<TxOut(300, AddrLegacyA, <<>>)>>, 100000, 200)}

WriterIdle(calls) ==
    [op |-> "idle", args |-> <<>>, i |-> 0, calls |-> calls,
     detached |-> FALSE, own |-> <<>>]

CheckerIdle ==
    [op |-> "idle", i |-> 0, acc |-> TaintAcc0, hits |-> <<>>, snap |-> <<>>,
     last |-> <<>>, detached |-> FALSE, own |-> <<>>, res |-> <<>>]

InitTaint ==
    /\ pc = "run"
    /\ store \in {"taint", "watch"}
    /\ tx \in CheckTxs
    /\ taintMap = <<>>
    /\ txRes = <<>>
    /\ txRes2 = <<>>
    /\ taintInitOnce = FALSE
    /\ taintMu = "free"
    /\ watchAddrs = <<>>
    /\ watchMu = "free"
    /\ writer = WriterIdle(0)
    /\ checker = CheckerIdle
    /\ AnonIdle
    /\ FgIdle
    /\ PropIdle
    /\ ScoreIdle
    /\ AlertIdle
    /\ FlowIdle
    /\ LateIdle

TaintFrame ==
    UNCHANGED <<pc, store, tx, txRes, txRes2, anonVars, fgVars, propVars, scoreVars, alertVars,
                flowVars, lateVars>>

\* InitGlobalTaintMap, first call: the once-function replaces the map and
\* takes no lock.  A thread in the middle of a call either sees the new
\* map at its next access or keeps working on the map it had loaded.
InitGlobalTaintMap ==
    /\ store = "taint"
    /\ ~taintInitOnce
    /\ taintInitOnce' = TRUE
    /\ taintMap' = <<>>
    /\ \/ writer' = writer
       \/ /\ writer.op \in {"inv", "ext"}
          /\ ~writer.detached
          /\ writer' = [writer EXCEPT !.detached = TRUE, !.own = taintMap]
    /\ \/ checker' = checker
       \/ /\ checker.op = "taint"
          /\ ~checker.detached
          /\ checker' = [checker EXCEPT !.detached = TRUE, !.own = taintMap]
    /\ UNCHANGED <<taintMu, watchAddrs, watchMu>>
    /\ TaintFrame

\* SeedFromInvestigationAddresses / SeedFromExternalIntel: Lock, and the
\* map is created when it is nil
SeedBegin ==
    /\ store = "taint"
    /\ writer.op \in {"idle", "inv_returned", "ext_returned"}
    /\ writer.calls < MaxCalls
    /\ taintMu = "free"
    /\ taintMu' = "writer"
    /\ \/ \E addresses \in SeqsUpTo(SeedAddrs, MaxSeedLen) :
             writer' = [WriterIdle(writer.calls) EXCEPT !.op = "inv", !.args = addresses, !.i = 1]
       \/ \E sources \in SeqsUpTo(IntelSources, MaxSeedLen) :
             writer' = [WriterIdle(writer.calls) EXCEPT !.op = "ext", !.args = sources, !.i = 1]
    /\ UNCHANGED <<taintMap, taintInitOnce, watchAddrs, watchMu, checker>>
    /\ TaintFrame

\* one iteration of the seeding loop
SeedStep ==
    /\ writer.op \in {"inv", "ext"}
    /\ writer.i <= Len(writer.args)
    /\ LET target == IF writer.detached THEN writer.own ELSE taintMap
           seeded == IF writer.op = "inv"
                     THEN SeedInvestigationAddress(target, writer.args[writer.i])
                     ELSE SeedIntelSource(target, writer.args[writer.i])
       IN /\ writer' = [writer EXCEPT !.i = @ + 1,
                                      !.own = IF writer.detached THEN seeded ELSE @]
          /\ taintMap' = IF writer.detached THEN taintMap ELSE seeded
    /\ UNCHANGED <<taintInitOnce, taintMu, watchAddrs, watchMu, checker>>
    /\ TaintFrame

\* the seeding function returns: Unlock
SeedReturn ==
    /\ writer.op \in {"inv", "ext"}
    /\ writer.i > Len(writer.args)
    /\ writer' = [writer EXCEPT !.op = IF writer.op = "inv" THEN "inv_returned"
                                         ELSE "ext_returned",
                                !.calls = @ + 1]
    /\ taintMu' = "free"
    /\ UNCHANGED <<taintMap, taintInitOnce, watchAddrs, watchMu, checker>>
    /\ TaintFrame

\* CheckInputsForTaint: RLock and the nil-or-empty test
TaintCheckBegin ==
    /\ store = "taint"
    /\ checker.op = "idle"
    /\ taintMu = "free"
    /\ IF taintMap = <<>>
       THEN /\ checker' = [CheckerIdle EXCEPT !.op = "done", !.res = NoExposure]
            /\ taintMu' = taintMu
       ELSE /\ checker' = [CheckerIdle EXCEPT !.op = "taint", !.i = 1,
                                              !.snap = taintMap, !.last = taintMap]
            /\ taintMu' = "reader"
    /\ UNCHANGED <<taintMap, taintInitOnce, watchAddrs, watchMu, writer>>
    /\ TaintFrame

\* one iteration of the input loop
TaintCheckStep ==
    /\ checker.op = "taint"
    /\ checker.i <= Len(tx.Inputs)
    /\ LET seen == IF checker.detached THEN checker.own ELSE taintMap IN
       checker' = [checker EXCEPT !.i = @ + 1, !.last = seen,
                                  !.acc = TaintLookup(@, tx.Inputs[checker.i], seen)]
    /\ UNCHANGED <<taintMap, taintInitOnce, taintMu, watchAddrs, watchMu, writer>>
    /\ TaintFrame

\* the output loop, the verdict and RUnlock
TaintCheckReturn ==
    /\ checker.op = "taint"
    /\ checker.i > Len(tx.Inputs)
    /\ checker' = [checker EXCEPT !.op = "done", !.res = TaintVerdict(checker.acc, tx.Outputs)]
    /\ taintMu' = "free"
    /\ UNCHANGED <<taintMap, taintInitOnce, watchAddrs, watchMu, writer>>
    /\ TaintFrame

\* AddressWatchlist.Add: Lock, the write, Unlock
CallWatchAdd ==
    /\ store = "watch"
    /\ writer.calls < MaxCalls
    /\ watchMu = "free"
    /\ \E addr \in {AddrLegacyA, AddrSegwitB}, alertLevel \in {"high", "low"} :
          watchAddrs' = WatchAdd(watchAddrs, addr, "theft", alertLevel)
    /\ writer' = [writer EXCEPT !.calls = @ + 1]
    /\ UNCHANGED <<taintMap, taintInitOnce, taintMu, watchMu, checker>>
    /\ TaintFrame

\* AddressWatchlist.Remove: Lock, the delete, Unlock
CallWatchRemove ==
    /\ store = "watch"
    /\ writer.calls < MaxCalls
    /\ watchMu = "free"
    /\ \E addr \in {AddrLegacyA, AddrSegwitB} :
          watchAddrs' = WatchRemove(watchAddrs, addr)
    /\ writer' = [writer EXCEPT !.calls = @ + 1]
    /\ UNCHANGED <<taintMap, taintInitOnce, taintMu, watchMu, checker>>
    /\ TaintFrame

\* AddressWatchlist.CheckTransaction: RLock
WatchCheckBegin ==
    /\ store = "watch"
    /\ checker.op = "idle"
    /\ watchMu = "free"
    /\ watchMu' = "reader"
    /\ checker' = [CheckerIdle EXCEPT !.op = "watch", !.i = 1,
                                      !.snap = watchAddrs, !.last = watchAddrs]
    /\ UNCHANGED <<taintMap, taintInitOnce, taintMu, watchAddrs, writer>>
    /\ TaintFrame

\* one iteration of the input loop, then of the output loop
WatchCheckStep ==
    /\ checker.op = "watch"
    /\ checker.i <= Len(tx.Inputs) + Len(tx.Outputs)
    /\ checker' =
          [checker EXCEPT
              !.i = @ + 1, !.last = watchAddrs,
              !.hits = IF checker.i <= Len(tx.Inputs)
                       THEN WatchLookup(@, tx.Inputs[checker.i], "input", watchAddrs)
                       ELSE WatchLookup(@, tx.Outputs[checker.i - Len(tx.Inputs)],
                                        "output", watchAddrs)]
    /\ UNCHANGED <<taintMap, taintInitOnce, taintMu, watchAddrs, watchMu, writer>>
    /\ TaintFrame

\* CheckTransaction returns: RUnlock
WatchCheckReturn ==
    /\ checker.op = "watch"
    /\ checker.i > Len(tx.Inputs) + Len(tx.Outputs)
    /\ checker' = [checker EXCEPT !.op = "done", !.res = checker.hits]
    /\ watchMu' = "free"
    /\ UNCHANGED <<taintMap, taintInitOnce, taintMu, watchAddrs, writer>>
    /\ TaintFrame

NextTaint ==
    \/ InitGlobalTaintMap
    \/ SeedBegin
    \/ SeedStep
    \/ SeedReturn
    \/ TaintCheckBegin
    \/ TaintCheckStep
    \/ TaintCheckReturn
    \/ CallWatchAdd
    \/ CallWatchRemove
    \/ WatchCheckBegin
    \/ WatchCheckStep
    \/ WatchCheckReturn

SpecTaint == InitTaint /\ [][NextTaint]_vars

\* C12: no step of InitGlobalTaintMap, SeedFromInvestigationAddresses or
\* SeedFromExternalIntel, in any interleaving, removes an entry of the
\* global taint map or lowers its taint level.
C12_TaintMonotone ==
    [][\A a \in DOMAIN taintMap : a \in DOMAIN taintMap' /\ taintMap'[a] >= taintMap[a]]_vars
\* C13: every taint level stored in the global taint map lies between 0
\* and 1 (0 and 100 hundredths), whatever levels the external
\* intelligence sources carry.
C13_LevelsInRange ==
    \A a \in DOMAIN taintMap : taintMap[a] >= 0 /\ taintMap[a] <= 100

\* C14: when SeedFromInvestigationAddresses returns, every non-blank
\* address of its list is in the global taint map at level 1.0, whatever
\* was seeded before.
C14_InvestigationSeeded ==
    [][(writer.op = "inv" /\ writer'.op = "inv_returned")
          => \A k \in 1..Len(writer.args) :
                LET addr == TrimSpace(writer.args[k]) IN
                addr # <<>> => addr \in DOMAIN taintMap' /\ taintMap'[addr] = 100]_vars

\* C16: a call of CheckInputsForTaint or of CheckTransaction sees one
\* state of its map from its first lookup to its last: every lookup reads
\* the map the call saw when it took the read lock.
C16_ConsistentSnapshot ==
    checker.op \in {"taint", "watch"} => checker.last = checker.snap
\* ---------------------------------------------------------------------
\* CheckInputsForTaint as a function of the transaction and the map
\* (taint_seed.go), with nothing running beside it.
\* ---------------------------------------------------------------------

RECURSIVE TaintLoop(_, _, _)
TaintLoop(acc, inputs, taints) ==
    IF inputs = <<>> THEN acc
    ELSE TaintLoop(TaintLookup(acc, Head(inputs), taints), Tail(inputs), taints)

\* CheckInputsForTaint: (exposure, isHighRisk), the exposure as a fraction
TaintExposure(t, taints) ==
    IF taints = <<>> THEN NoExposure
    ELSE TaintVerdict(TaintLoop(TaintAcc0, t.Inputs, taints), t.Outputs)

MaxCheckIn == 2

ExposureIns == {TxIn(v, a) : v \in {0, 10, 30}, a \in {AddrLegacyA, AddrSegwitA, <<>>}}
ExposureTxs ==
    {Transaction(ins, <<TxOut(v, AddrSegwitB, <<>>)>>, 0, 200) :
        ins \in SeqsUpTo(ExposureIns, MaxCheckIn) \ {<<>>}, v \in {0, 10, 100}}
ExposureMaps ==
    {<<>>, [a \in {AddrLegacyA} |-> 100], [a \in {AddrLegacyA} |-> 50],
     [a \in {AddrLegacyA, AddrSegwitA} |-> IF a = AddrLegacyA THEN 100 ELSE 50]}

InitExposure ==
    /\ pc = "check"
    /\ tx \in ExposureTxs
    /\ taintMap \in ExposureMaps
    /\ txRes = <<>>
    /\ txRes2 = <<>>
    /\ AnonIdle
    /\ FgIdle
    /\ RestIdle

CallCheckInputsForTaint ==
    /\ pc = "check"
    /\ txRes' = TaintExposure(tx, taintMap)
    /\ pc' = "checked"
    /\ UNCHANGED <<tx, taintMap, txRes2, anonVars, fgVars, restVars>>

NextExposure == CallCheckInputsForTaint

SpecExposure == InitExposure /\ [][NextExposure]_vars

\* the taint level of an address, 0 when the map has no entry for it
TaintOf(addr) == IF addr \in DOMAIN taintMap THEN taintMap[addr] ELSE 0

PositiveIns == {i \in 1..Len(tx.Inputs) : tx.Inputs[i].Value > 0}
AddressedIns == {i \in PositiveIns : TrimSpace(tx.Inputs[i].Address) # <<>>}
InSum(S) == SumOver(S, [i \in S |-> tx.Inputs[i].Value])
WeightedSum(S) ==
    SumOver(S, [i \in S |-> TaintOf(TrimSpace(tx.Inputs[i].Address)) * tx.Inputs[i].Value])

\* the result is (0, false) when the denominator is not positive, and
\* otherwise its exposure is weighted / (100 * denom)
ExposureIs(weighted, denom) ==
    IF denom <= 0 THEN txRes.exposureNum = 0 /\ ~txRes.isHighRisk
    ELSE txRes.exposureNum * 100 * denom = weighted * txRes.exposureDen

HitPoints(hit) ==
    CASE hit.Category = "theft" -> 50
      [] hit.Category = "sanctioned" -> 60
      [] hit.Category = "suspect" -> 40
      [] OTHER -> 20

\* the signal one watchlist hit appends
HitSignal(hit) == <<"watchlist:", hit.Category, ":", hit.Label>>

SignalIf(cond, name) == IF cond THEN <<<<name>>>> ELSE <<>>

classifySeverity(score) ==
    IF score <= 10 THEN "info"
    ELSE IF score <= 30 THEN "low"
    ELSE IF score <= 50 THEN "medium"
    ELSE IF score <= 75 THEN "high"
    ELSE "critical"

recommendAction(score) ==
    IF score <= 10 THEN "none"
    ELSE IF score <= 30 THEN "log"
    ELSE IF score <= 50 THEN "review"
    ELSE IF score <= 75 THEN "alert"
    ELSE "escalate"

\* int(math.Round(math.Min(25.0, taintLevel*25.0))) for a positive level
TaintPoints(taint) ==
    IF taint.exposureNum >= taint.exposureDen THEN 25
    ELSE RoundDiv(25 * taint.exposureNum, taint.exposureDen)

ScoreTransaction(t, result, watchlistHits, taints) ==
    LET totalIn == SeqSum([k \in 1..Len(t.Inputs) |-> t.Inputs[k].Value])
        totalOut == SeqSum([k \in 1..Len(t.Outputs) |-> t.Outputs[k].Value])
        totalValue == Max2(totalIn, totalOut)
        flags == result.HeuristicFlags
        isWatchlistHit == Len(watchlistHits) > 0
        isCoinJoin == flags \cap {"FlagIsWhirlpoolStruct", "FlagIsWasabiSuspect",
                                  "FlagLikelyCollabConstruct"} # {}
        taint == TaintExposure(t, taints)
        tainted == taint.exposureNum > 0
        flagged == "FlagHighRisk" \in flags
        safetyNet == ~flagged /\ taint.isHighRisk
        compound == isCoinJoin /\ isWatchlistHit /\ totalValue > 100000000
        riskScore ==
            (IF totalValue > 100000000 THEN 5 ELSE 0)
            + (IF totalValue > 1000000000 THEN 10 ELSE 0)
            + SeqSum([k \in 1..Len(watchlistHits) |-> HitPoints(watchlistHits[k])])
            + (IF isCoinJoin THEN 15 ELSE 0)
            + (IF "FlagPostMixLeakage" \in flags THEN 20 ELSE 0)
            + (IF "FlagHighTraceability" \in flags THEN 10 ELSE 0)
            + (IF "FlagDustAttackSuspect" \in flags THEN 15 ELSE 0)
            + (IF tainted THEN TaintPoints(taint) ELSE 0)
            + (IF flagged THEN 30 ELSE IF safetyNet THEN 25 ELSE 0)
            + (IF "FlagBotBehavior" \in flags THEN 10 ELSE 0)
            + (IF "FlagAncientUTXO" \in flags THEN 8 ELSE 0)
            + (IF "FlagKnownServicePattern" \in flags THEN 5 ELSE 0)
            + (IF result.PrivacyScore < 30 THEN 3 ELSE 0)
            - (IF "FlagLightningChannel" \in flags THEN 5 ELSE 0)
            + (IF "FlagStrategicConsolidation" \in flags THEN 5 ELSE 0)
            + (IF compound THEN 20 ELSE 0)
        capped == Max2(0, Min2(100, riskScore))
        signals ==
            SignalIf(totalValue > 100000000, "high_value_tx")
            \o SignalIf(totalValue > 1000000000, "very_high_value_tx")
            \o [k \in 1..Len(watchlistHits) |-> HitSignal(watchlistHits[k])]
            \o SignalIf(isCoinJoin, "coinjoin_detected")
            \o SignalIf("FlagPostMixLeakage" \in flags, "post_mix_leakage")
            \o SignalIf("FlagHighTraceability" \in flags, "high_traceability")
            \o SignalIf("FlagDustAttackSuspect" \in flags, "dust_attack")
            \o SignalIf(tainted, "taint_exposure")
            \o SignalIf(flagged, "tainted_funds")
            \o SignalIf(safetyNet, "taint_high_risk")
            \o SignalIf("FlagBotBehavior" \in flags, "bot_pattern")
            \o SignalIf("FlagAncientUTXO" \in flags, "ancient_utxo_movement")
            \o SignalIf("FlagKnownServicePattern" \in flags, "known_service_pattern")
            \o SignalIf(result.PrivacyScore < 30, "low_privacy_score")
            \o SignalIf("FlagLightningChannel" \in flags, "lightning_channel")
            \o SignalIf("FlagStrategicConsolidation" \in flags, "consolidation")
            \o SignalIf(compound, "compound_escalation")
    IN [RiskScore |-> capped, Severity |-> classifySeverity(capped), Signals |-> signals,
        RecommendedAction |-> recommendAction(capped), IsWatchlistHit |-> isWatchlistHit,
        IsCoinJoin |-> isCoinJoin]

MaxHits == 2

ScoreFlags ==
    {"FlagIsWhirlpoolStruct", "FlagIsWasabiSuspect", "FlagLikelyCollabConstruct",
     "FlagPostMixLeakage", "FlagHighTraceability", "FlagDustAttackSuspect", "FlagHighRisk",
     "FlagBotBehavior", "FlagAncientUTXO", "FlagKnownServicePattern",
     "FlagLightningChannel", "FlagStrategicConsolidation"}

\* analysis results: no flag, one flag, every flag; a low and a fair score
ScoreResults ==
    {[HeuristicFlags |-> fl, PrivacyScore |-> ps] :
        fl \in {{}, ScoreFlags} \cup {{f} : f \in ScoreFlags}, ps \in {20, 60}}

WatchHit(category, label) ==
    [Address |-> AddrLegacyA, Category |-> category, Label |-> label,
     Direction |-> "input", Value |-> 100000, AlertLevel |-> "high"]

HitSet ==
    {WatchHit("theft", "case-1"), WatchHit("theft", "case-2"), WatchHit("sanctioned", "ofac"),
     WatchHit("suspect", "case-1"), WatchHit("exchange", "hot")}

\* a small payment checked against three taint maps, and payments above 1
\* and above 10 BTC checked against the empty map (their taint products
\* exceed 32 bits)
ScoreInputs ==
    ({Transaction(<<TxIn(100000, AddrLegacyA)>>, <<TxOut(90000, AddrSegwitB, <<>>)>>, 10000, 200)}
        \X {<<>>, [a \in {AddrLegacyA} |-> 10], [a \in {AddrLegacyA} |-> 100]})
    \cup ({Transaction(<<TxIn(v, AddrLegacyA)>>, <<TxOut(v - 10000, AddrSegwitB, <<>>)>>, 10000, 200) :
              v \in {150000000, 1500000000}} \X {<<>>})

InitScore ==
    /\ pc = "score"
    /\ \E input \in ScoreInputs : tx = input[1] /\ taintMap = input[2]
    /\ txRes = <<>>
    /\ txRes2 = <<>>
    /\ scResult \in ScoreResults
    /\ scHits \in SeqsUpTo(HitSet, MaxHits)
    /\ scRes = <<>>
    /\ scRes2 = <<>>
    /\ AnonIdle
    /\ FgIdle
    /\ PropIdle
    /\ LockIdle
    /\ AlertIdle
    /\ FlowIdle
    /\ LateIdle

ScoreFrame ==
    UNCHANGED <<tx, taintMap, txRes, txRes2, scResult, scHits, anonVars, fgVars, propVars,
                lockVars, alertVars, flowVars, lateVars>>

CallScoreTransaction ==
    /\ pc = "score"
    /\ scRes' = ScoreTransaction(tx, scResult, scHits, taintMap)
    /\ pc' = "scored"
    /\ UNCHANGED scRes2
    /\ ScoreFrame

\* the same call with the hits in another order
CallScoreTransactionPermuted ==
    /\ pc = "scored"
    /\ \E p \in IndexPermutations(Len(scHits)) :
          scRes2' = ScoreTransaction(tx, scResult, [k \in 1..Len(scHits) |-> scHits[p[k]]], taintMap)
    /\ pc' = "scored_twice"
    /\ UNCHANGED scRes
    /\ ScoreFrame

NextScore == CallScoreTransaction \/ CallScoreTransactionPermuted

SpecScore == InitScore /\ [][NextScore]_vars

\* C17: ScoreTransaction returns the same risk score, severity,
\* recommended action, watchlist-hit mark and ordered signals list for
\* every order of the same watchlist hits.
C17_HitOrderInvariant ==
    pc = "scored_twice" =>
        /\ scRes2.RiskScore = scRes.RiskScore
        /\ scRes2.Severity = scRes.Severity
        /\ scRes2.RecommendedAction = scRes.RecommendedAction
        /\ scRes2.IsWatchlistHit = scRes.IsWatchlistHit
        /\ scRes2.Signals = scRes.Signals
\* ---------------------------------------------------------------------
\* The alert manager (taint_analysis.go): the alert history, the webhook
\* list and the delivery goroutines.  Two threads call EmitAlert, one
\* calls RegisterWebhook, RemoveWebhook and GetRecentAlerts.  Of an alert
\* its ID, severity, type and txid are carried, of a webhook its name,
\* its Enabled mark and its minimum severity.  A delivery is in
\* deliveries from the go statement until sendWebhook ends.
\* ---------------------------------------------------------------------

maxHistory == 1000
MaxAlertCalls == 2
EmitThreads == {1, 2}

SeverityLevel(s) ==
    CASE s = "info" -> 0
      [] s = "low" -> 1
      [] s = "medium" -> 2
      [] s = "high" -> 3
      [] s = "critical" -> 4
      [] OTHER -> 0

severityMeetsThreshold(severity, minimum) == SeverityLevel(severity) >= SeverityLevel(minimum)

generateAlertID(alert) == <<alert.Severity, "-", alert.AlertType, "-">> \o alert.TxID

\* the history after EmitAlert has kept every alert on overflow
StoreAlert_NoTrim(history, alert) == Append(history, alert)

\* EmitAlert on the history: append, then keep the last maxHistory alerts
StoreAlert(history, alert) ==
    LET appended == Append(history, alert) IN
    IF Len(appended) > maxHistory
    THEN SubSeq(appended, Len(appended) - maxHistory + 1, Len(appended))
    ELSE appended

\* RemoveWebhook on the list: the first webhook of that name is cut out
RemoveWebhook(webhooks, name) ==
    LET named == {i \in 1..Len(webhooks) : webhooks[i].Name = name} IN
    IF named = {} THEN webhooks
    ELSE LET i == CHOOSE j \in named : \A k \in named : j <= k
         IN SubSeq(webhooks, 1, i - 1) \o SubSeq(webhooks, i + 1, Len(webhooks))

\* GetRecentAlerts: the last limit alerts, most recent first
GetRecentAlerts(history, limit) ==
    LET lim == IF limit <= 0 \/ limit > Len(history) THEN Len(history) ELSE limit
        start == Len(history) - lim
    IN [j \in 1..lim |-> history[start + lim - j + 1]]

WebhookEndpoint(name, minSeverity) ==
    [Name |-> name, Enabled |-> TRUE, MinSeverity |-> minSeverity]

AlertSet ==
    {[ID |-> <<>>, Severity |-> "low", AlertType |-> "high_risk", TxID |-> TxidA],
     [ID |-> <<>>, Severity |-> "critical", AlertType |-> "watchlist_hit", TxID |-> NullTxid]}

\* n alerts emitted earlier: the history starts empty or one alert short
\* of full
OldAlerts(n) ==
    [k \in 1..n |-> [ID |-> <<"old", k>>, Severity |-> "info", AlertType |-> "risk_assessment",
                     TxID |-> TxidA]]

EmitIdle(calls) == [pc |-> "idle", alert |-> <<>>, hooks |-> <<>>, k |-> 0, calls |-> calls]
AdminIdle(ops) ==
    [pc |-> "idle", op |-> "", name |-> "", minSeverity |-> "", limit |-> 0, res |-> <<>>,
     ops |-> ops]

InitAlert ==
    /\ pc = "run"
    /\ amMu = "free"
    /\ amWebhooks = <<WebhookEndpoint("slack", "high")>>
    /\ recentAlerts \in {OldAlerts(0), OldAlerts(maxHistory - 1)}
    /\ emit = [t \in EmitThreads |-> EmitIdle(0)]
    /\ admin = AdminIdle(0)
    /\ deliveries = {}
    /\ AnonIdle
    /\ FgIdle
    /\ TxIdle
    /\ PropIdle
    /\ LockIdle
    /\ ScoreIdle
    /\ FlowIdle
    /\ LateIdle

AlertFrame ==
    UNCHANGED <<pc, anonVars, fgVars, txVars, propVars, lockVars, scoreVars, flowVars, lateVars>>

\* the calls made so far, those still running included
AlertCalls ==
    emit[1].calls + emit[2].calls + Cardinality({t \in EmitThreads : emit[t].pc # "idle"})
    + admin.ops + (IF admin.pc # "idle" THEN 1 ELSE 0)

\* EmitAlert is called: the timestamp and the ID are filled in
EmitBegin(t) ==
    /\ emit[t].pc = "idle"
    /\ AlertCalls < MaxAlertCalls
    /\ \E alert \in AlertSet :
          emit' = [emit EXCEPT ![t].pc = "lock",
                               ![t].alert = [alert EXCEPT !.ID = generateAlertID(alert)]]
    /\ UNCHANGED <<amMu, amWebhooks, recentAlerts, admin, deliveries>>
    /\ AlertFrame

\* am.mu.Lock()
EmitLock(t) ==
    /\ emit[t].pc = "lock"
    /\ amMu = "free"
    /\ amMu' = "emitter"
    /\ emit' = [emit EXCEPT ![t].pc = "store"]
    /\ UNCHANGED <<amWebhooks, recentAlerts, admin, deliveries>>
    /\ AlertFrame

\* the history is extended and trimmed, the webhooks are copied, Unlock;
\* then the broadcast callback, which returns
EmitStore(t) ==
    /\ emit[t].pc = "store"
    /\ recentAlerts' = StoreAlert(recentAlerts, emit[t].alert)
    /\ emit' = [emit EXCEPT ![t].pc = "dispatch", ![t].hooks = amWebhooks, ![t].k = 1]
    /\ amMu' = "free"
    /\ UNCHANGED <<amWebhooks, admin, deliveries>>
    /\ AlertFrame

Delivery(t) ==
    [thread |-> t, call |-> emit[t].calls + 1, hook |-> emit[t].hooks[emit[t].k].Name]

Wanted(t) ==
    /\ emit[t].hooks[emit[t].k].Enabled
    /\ severityMeetsThreshold(emit[t].alert.Severity, emit[t].hooks[emit[t].k].MinSeverity)

\* the webhook loop with sendWebhook called in place: the loop goes on
\* when the delivery has ended
EmitDispatch_Wait(t) ==
    /\ \/ /\ emit[t].pc = "dispatch"
          /\ emit[t].k <= Len(emit[t].hooks)
          /\ IF Wanted(t)
             THEN /\ deliveries' = deliveries \cup {Delivery(t)}
                  /\ emit' = [emit EXCEPT ![t].pc = "delivering"]
             ELSE /\ deliveries' = deliveries
                  /\ emit' = [emit EXCEPT ![t].k = @ + 1]
       \/ /\ emit[t].pc = "delivering"
          /\ Delivery(t) \notin deliveries
          /\ deliveries' = deliveries
          /\ emit' = [emit EXCEPT ![t].pc = "dispatch", ![t].k = @ + 1]
    /\ UNCHANGED <<amMu, amWebhooks, recentAlerts, admin>>
    /\ AlertFrame

\* one iteration of the webhook loop: go am.sendWebhook(wh, alert)
EmitDispatch(t) ==
    /\ emit[t].pc = "dispatch"
    /\ emit[t].k <= Len(emit[t].hooks)
    /\ deliveries' = IF Wanted(t) THEN deliveries \cup {Delivery(t)} ELSE deliveries
    /\ emit' = [emit EXCEPT ![t].k = @ + 1]
    /\ UNCHANGED <<amMu, amWebhooks, recentAlerts, admin>>
    /\ AlertFrame

\* EmitAlert returns
EmitReturn(t) ==
    /\ emit[t].pc = "dispatch"
    /\ emit[t].k > Len(emit[t].hooks)
    /\ emit' = [emit EXCEPT ![t] = EmitIdle(emit[t].calls + 1)]
    /\ UNCHANGED <<amMu, amWebhooks, recentAlerts, admin, deliveries>>
    /\ AlertFrame

\* sendWebhook ends: the endpoint has answered, or the request has failed
\* or timed out
WebhookRespond ==
    /\ \E d \in deliveries : deliveries' = deliveries \ {d}
    /\ UNCHANGED <<amMu, amWebhooks, recentAlerts, emit, admin>>
    /\ AlertFrame

\* RegisterWebhook, RemoveWebhook or GetRecentAlerts is called
AdminBegin ==
    /\ admin.pc = "idle"
    /\ AlertCalls < MaxAlertCalls
    /\ \/ \E minSeverity \in {"low", "high"} :
             admin' = [admin EXCEPT !.pc = "lock", !.op = "register", !.name = "pager",
                                    !.minSeverity = minSeverity]
       \/ admin' = [admin EXCEPT !.pc = "lock", !.op = "remove", !.name = "slack"]
       \/ \E limit \in {0, 1} :
             admin' = [admin EXCEPT !.pc = "lock", !.op = "get", !.limit = limit]
    /\ UNCHANGED <<amMu, amWebhooks, recentAlerts, emit, deliveries>>
    /\ AlertFrame

\* am.mu.Lock() or am.mu.RLock() of the three operations
AdminLock ==
    /\ admin.pc = "lock"
    /\ amMu = "free"
    /\ amMu' = "admin"
    /\ admin' = [admin EXCEPT !.pc = "run"]
    /\ UNCHANGED <<amWebhooks, recentAlerts, emit, deliveries>>
    /\ AlertFrame

CallRegisterWebhook ==
    /\ admin.pc = "run"
    /\ admin.op = "register"
    /\ amWebhooks' = Append(amWebhooks, WebhookEndpoint(admin.name, admin.minSeverity))
    /\ amMu' = "free"
    /\ admin' = AdminIdle(admin.ops + 1)
    /\ UNCHANGED <<recentAlerts, emit, deliveries>>
    /\ AlertFrame

CallRemoveWebhook ==
    /\ admin.pc = "run"
    /\ admin.op = "remove"
    /\ amWebhooks' = RemoveWebhook(amWebhooks, admin.name)
    /\ amMu' = "free"
    /\ admin' = AdminIdle(admin.ops + 1)
    /\ UNCHANGED <<recentAlerts, emit, deliveries>>
    /\ AlertFrame

CallGetRecentAlerts ==
    /\ admin.pc = "run"
    /\ admin.op = "get"
    /\ amMu' = "free"
    /\ admin' = [AdminIdle(admin.ops + 1) EXCEPT !.res = GetRecentAlerts(recentAlerts, admin.limit)]
    /\ UNCHANGED <<amWebhooks, recentAlerts, emit, deliveries>>
    /\ AlertFrame

EmitStep(t) == EmitLock(t) \/ EmitStore(t) \/ EmitDispatch(t) \/ EmitReturn(t)

AdminStep == AdminLock \/ CallRegisterWebhook \/ CallRemoveWebhook \/ CallGetRecentAlerts

NextAlert ==
    \/ \E t \in EmitThreads : EmitBegin(t)
    \/ \E t \in EmitThreads : EmitLock(t)
    \/ \E t \in EmitThreads : EmitStore(t)
    \/ \E t \in EmitThreads : EmitDispatch(t)
    \/ \E t \in EmitThreads : EmitReturn(t)
    \/ WebhookRespond
    \/ AdminBegin
    \/ AdminLock
    \/ CallRegisterWebhook
    \/ CallRemoveWebhook
    \/ CallGetRecentAlerts

SpecAlert == InitAlert /\ [][NextAlert]_vars

\* the alert manager as NewAlertManager leaves it, one webhook registered
InitAlertNew == InitAlert /\ recentAlerts = <<>>

\* the scheduler runs every thread that can take a step; nothing makes an
\* endpoint answer
SpecAlertLive ==
    /\ InitAlertNew
    /\ [][NextAlert]_vars
    /\ \A t \in EmitThreads : WF_vars(EmitStep(t))
    /\ WF_vars(AdminStep)

\* C18: the alert history never holds more than 1000 alerts, and every
\* change of it by EmitAlert leaves the last 1000 of the alerts it held
\* followed by the new one: the most recent alerts, the oldest dropped
\* first.
C18_HistoryBounded ==
    [][/\ Len(recentAlerts') <= 1000
       /\ recentAlerts' # recentAlerts =>
             \E t \in EmitThreads :
                LET all == Append(recentAlerts, emit[t].alert)
                    keep == Min2(1000, Len(all))
                IN recentAlerts' = SubSeq(all, Len(all) - keep + 1, Len(all))]_vars

\* an alert is appended to a full history
C18_Witness ==
    /\ Len(recentAlerts) = 1000
    /\ recentAlerts[1].ID = <<"old", 2>>
    /\ recentAlerts[1000].ID # <<"old", 999>>
\* C19: every EmitAlert call that has started returns, and every
\* RegisterWebhook, RemoveWebhook and GetRecentAlerts call that has
\* started returns, although no webhook endpoint ever has to answer:
\* EmitAlert waits for no delivery and no delivery holds the lock.
C19_NeverBlocked ==
    /\ \A t \in EmitThreads : (emit[t].pc # "idle") ~> (emit[t].pc = "idle")
    /\ (admin.pc # "idle") ~> (admin.pc = "idle")

\* a delivery is still pending after its EmitAlert has returned and a
\* later call has returned too
C19_Witness ==
    \E d \in deliveries :
        /\ emit[d.thread].pc = "idle"
        /\ emit[d.thread].calls >= d.call
        /\ emit[1].calls + emit[2].calls + admin.ops = MaxAlertCalls
\* ---------------------------------------------------------------------
\* The fund-flow graph (fund_tracer.go).  Confidences are hundredths, risk
\* scores ten-thousandths; timestamps and the investigation ID are not
\* carried.  TotalTracked is an int64: its additions wrap.  The model
\* wraps at 2^6 in place of 2^63, with values of a matching size.
\* ---------------------------------------------------------------------

I64Half == 2 ^ 6

\* the int64 a value wraps to
WrapI64(x) == ((x + I64Half) % (2 * I64Half)) - I64Half

\* decay * confidence of computeHopRisk, clamped to [0, 1]
computeHopRisk(hop, confidence) ==
    Max2(0, Min2(10000, RoundDiv(DecayPow(85, hop) * confidence, 100)))

hasNode(g, addr) == \E i \in 1..Len(g.Nodes) : g.Nodes[i].Address = addr

FlowNode(addr, hop, received, role, risk, flagged) ==
    [Address |-> addr, HopNumber |-> hop, ValueReceived |-> received, ValueSent |-> 0,
     Role |-> role, Label |-> "", RiskScore |-> risk, IsFlagged |-> flagged]

TraceFundFlow(sourceAddresses) ==
    [SourceAddresses |-> sourceAddresses,
     Nodes |-> [k \in 1..Len(sourceAddresses) |->
                   FlowNode(sourceAddresses[k], 0, 0, "theft", 10000, TRUE)],
     Edges |-> <<>>, TotalTracked |-> 0, MaxHopReached |-> 0, ExchangeExits |-> 0,
     MixersPassed |-> 0]

FirstNode(g, addr) ==
    CHOOSE i \in 1..Len(g.Nodes) :
        /\ g.Nodes[i].Address = addr
        /\ \A j \in 1..(i - 1) : g.Nodes[j].Address # addr

\* AddHop with the total raised only when the destination is a new node
AddHop_TotalOnNewNode(g, fromAddr, toAddr, txid, value, hopNum, isCoinJoin, confidence) ==
    LET edge == [FromAddress |-> fromAddr, ToAddress |-> toAddr, Txid |-> txid,
                 Value |-> value, HopNumber |-> hopNum, IsCoinJoin |-> isCoinJoin,
                 Confidence |-> confidence]
        isNew == ~hasNode(g, toAddr)
    IN [g EXCEPT
           !.Edges = Append(@, edge),
           !.TotalTracked = IF isNew THEN WrapI64(@ + value) ELSE @,
           !.MaxHopReached = Max2(@, hopNum),
           !.MixersPassed = IF isNew /\ isCoinJoin THEN @ + 1 ELSE @,
           !.Nodes =
               IF isNew
               THEN Append(@, FlowNode(toAddr, hopNum, value,
                                       IF isCoinJoin THEN "mixer" ELSE "intermediate",
                                       computeHopRisk(hopNum, confidence), FALSE))
               ELSE [@ EXCEPT ![FirstNode(g, toAddr)].ValueReceived = WrapI64(@ + value)]]

AddHop(g, fromAddr, toAddr, txid, value, hopNum, isCoinJoin, confidence) ==
    LET edge == [FromAddress |-> fromAddr, ToAddress |-> toAddr, Txid |-> txid,
                 Value |-> value, HopNumber |-> hopNum, IsCoinJoin |-> isCoinJoin,
                 Confidence |-> confidence]
        isNew == ~hasNode(g, toAddr)
    IN [g EXCEPT
           !.Edges = Append(@, edge),
           !.TotalTracked = WrapI64(@ + value),
           !.MaxHopReached = Max2(@, hopNum),
           !.MixersPassed = IF isNew /\ isCoinJoin THEN @ + 1 ELSE @,
           !.Nodes =
               IF isNew
               THEN Append(@, FlowNode(toAddr, hopNum, value,
                                       IF isCoinJoin THEN "mixer" ELSE "intermediate",
                                       computeHopRisk(hopNum, confidence), FALSE))
               ELSE [@ EXCEPT ![FirstNode(g, toAddr)].ValueReceived = WrapI64(@ + value)]]

MarkExchangeExit(g, addr, exchangeName) ==
    IF ~hasNode(g, addr) THEN g
    ELSE [g EXCEPT !.Nodes[FirstNode(g, addr)] =
                       [@ EXCEPT !.Role = "exchange", !.Label = exchangeName,
                                 !.IsFlagged = TRUE],
                   !.ExchangeExits = @ + 1]

MaxFlowEdges == 2
MaxExits == 2

InitFlow ==
    /\ pc = "trace"
    /\ flowGraph \in {TraceFundFlow(<<>>), TraceFundFlow(<<AddrLegacyA>>)}
    /\ AnonIdle
    /\ FgIdle
    /\ TxIdle
    /\ PropIdle
    /\ LockIdle
    /\ ScoreIdle
    /\ AlertIdle
    /\ LateIdle

FlowFrame ==
    UNCHANGED <<pc, anonVars, fgVars, txVars, propVars, lockVars, scoreVars, alertVars,
                lateVars>>

CallAddHop ==
    /\ Len(flowGraph.Edges) < MaxFlowEdges
    /\ \E toAddr \in {AddrLegacyA, AddrSegwitA}, value \in {-3, 10, 50}, hopNum \in {1, 2},
          isCoinJoin \in BOOLEAN :
          flowGraph' = AddHop(flowGraph, AddrLegacyA, toAddr, TxidA, value, hopNum,
                              isCoinJoin, 80)
    /\ FlowFrame

CallMarkExchangeExit ==
    /\ flowGraph.ExchangeExits < MaxExits
    /\ \E addr \in {AddrLegacyA, AddrSegwitA, AddrSegwitB} :
          flowGraph' = MarkExchangeExit(flowGraph, addr, "binance")
    /\ FlowFrame

NextFlow == CallAddHop \/ CallMarkExchangeExit

SpecFlow == InitFlow /\ [][NextFlow]_vars

\* the int64 sum of the values of a list of edges
RECURSIVE EdgeValueSum(_)
EdgeValueSum(edges) ==
    IF edges = <<>> THEN 0
    ELSE WrapI64(EdgeValueSum(SubSeq(edges, 1, Len(edges) - 1)) + edges[Len(edges)].Value)

\* C20: after any sequence of AddHop and MarkExchangeExit calls the
\* total_tracked of a FlowGraph is the sum, in int64 arithmetic, of the
\* values of the edges it holds.
C20_TotalIsEdgeSum == flowGraph.TotalTracked = EdgeValueSum(flowGraph.Edges)

\* two hops to the same address and an exchange exit marked
C20_Witness ==
    /\ Len(flowGraph.Edges) = 2
    /\ flowGraph.Edges[1].ToAddress = flowGraph.Edges[2].ToAddress
    /\ flowGraph.ExchangeExits > 0
    /\ flowGraph.TotalTracked > 0
\* the nodes of a flow graph GetExitPoints returns: those whose role is exchange
GetExitPoints(g) == {i \in 1..Len(g.Nodes) : g.Nodes[i].Role = "exchange"}

\* C29: after any sequence of AddHop and MarkExchangeExit calls on a
\* FlowGraph, exchange_exits equals the number of nodes whose role is
\* exchange; marking the same address again, or an address that has no
\* node, leaves the two equal.
C29_ExitsCountExchangeNodes ==
    flowGraph.ExchangeExits = Cardinality(GetExitPoints(flowGraph))
\* C28: ComputeClusterPosterior never returns should_cluster = true with a
\* negative posterior LLR: neither for the edges a request to the cluster
\* endpoint carries nor for the edge list GenerateCIOHEdges has emitted
\* (for a coinjoin, the gating edges only).
C28_NoClusterOnNegativeLLR ==
    /\ fgCluster # <<>> => (fgCluster[1] => fgCluster[2] >= 0)
    /\ pc = "generated" =>
           (ComputeClusterPosterior(fgEdges)[1] => ComputeClusterPosterior(fgEdges)[2] >= 0)
\* C26: when CalculateAnonSet escalates to the DP-bitset lane, the
\* tolerance applied there is the tau of the meet-in-the-middle path,
\* max(1000, feeRate * 150), so the window the lane tests around an input
\* is never narrower than plus or minus 1000 sats.
C26_DPLaneTau ==
    casRes.path = "dp" =>
        /\ casRes.dpTau[1] \in {FastTau(t) : t \in RawTauSet(casFee, casVsize)}
        /\ casRes.dpTau[1] >= MinTau
\* C23: in the result AnalyzeTx returns, the traceability (in hundredths)
\* is round((1 - privacy_score/100) * 100) / 100 computed from the privacy
\* score of that same result.
C23_TraceabilityFromReturnedScore ==
    Analyzed => txRes.Traceability = RoundDiv((100 - txRes.PrivacyScore) * 100, 100)

\* C24: AnalyzeTx sets the AddressReuse flag only when two inputs carry the
\* same known (non-empty) address.
C24_ReuseOnlyForKnownAddress ==
    (Analyzed /\ "FlagAddressReuse" \in txRes.HeuristicFlags) =>
        \E i, j \in 1..Len(tx.Inputs) :
            /\ i < j
            /\ tx.Inputs[i].Address # AddrUnknown
            /\ tx.Inputs[i].Address = tx.Inputs[j].Address
-----------------------------------------------------------------------------
(* Time-windowed anonymity sets (anonset_tracker.go)                        *)
(* Times are in units of 12 hours, counted from an arbitrary epoch;         *)
(* severities are hundredths.  The survival factor is carried exactly, as   *)
(* a numerator over 100^n; the enumerated values keep local * survival off  *)
(* the half-integers, where the float product could round either way.      *)

Window1d == 2        \* 24 * time.Hour
Window7d == 14       \* 7 * 24 * time.Hour
Window30d == 60      \* 30 * 24 * time.Hour
Window365d == 730    \* 365 * 24 * time.Hour

\* the events applyErosionDecay counts: Timestamp.After(mixTime) and
\* Timestamp.Before(windowEnd)
EventsCounted(mixTime, windowEnd, events) ==
    SelectSeq(events, LAMBDA evt : evt.Timestamp > mixTime /\ evt.Timestamp < windowEnd)

\* the product of (100 - Severity) over a list of events
RECURSIVE SurvivalNum(_)
SurvivalNum(events) ==
    IF events = <<>> THEN 1 ELSE (100 - Head(events).Severity) * SurvivalNum(Tail(events))

RECURSIVE Pow100(_)
Pow100(n) == IF n = 0 THEN 1 ELSE 100 * Pow100(n - 1)

\* max(1, round(anonSetLocal * survival)) over a list of counted events
DecayOver(anonSetLocal, counted) ==
    Max2(1, RoundDiv(anonSetLocal * SurvivalNum(counted), Pow100(Len(counted))))

applyErosionDecay(anonSetLocal, mixTime, windowEnd, events) ==
    DecayOver(anonSetLocal, EventsCounted(mixTime, windowEnd, events))

\* one window of ComputeWindowedAnonSet
WindowValue(localAnonSet, mixTime, events, now, duration) ==
    LET cutoff == mixTime + duration IN
    IF now < cutoff THEN localAnonSet
    ELSE applyErosionDecay(localAnonSet, mixTime, cutoff, events)

\* ComputeWindowedAnonSet, with the reading of time.Now() as an argument
ComputeWindowedAnonSet(localAnonSet, mixTime, events, now) ==
    [AnonSetLocal |-> localAnonSet,
     AnonSet1d |-> WindowValue(localAnonSet, mixTime, events, now, Window1d),
     AnonSet7d |-> WindowValue(localAnonSet, mixTime, events, now, Window7d),
     AnonSet30d |-> WindowValue(localAnonSet, mixTime, events, now, Window30d),
     AnonSet365d |-> WindowValue(localAnonSet, mixTime, events, now, Window365d),
     LastUpdated |-> now]

MaxEvents == 2   \* longest enumerated list of erosion events

\* the mix happened at time 4; events before it, at it, inside the
\* windows, exactly at the 24-hour and the 7-day cutoff, and after them
EventTimeSet == {3, 4, 5, 6, 10, 18, 40}

SeveritySet == {10, 30, 100}

ErosionEventSet == {[Timestamp |-> t, Severity |-> s] : t \in EventTimeSet, s \in SeveritySet}

EventLists == UNION {[1..n -> ErosionEventSet] : n \in 0..MaxEvents}

\* clock readings: before the first cutoff, exactly at it, and after the
\* 7-day, the 30-day and the 365-day cutoff
NowSet == {5, 6, 20, 70, 800}

EarlyIdle == AnonIdle /\ FgIdle /\ TxIdle /\ PropIdle /\ LockIdle /\ ScoreIdle /\ AlertIdle /\ FlowIdle

earlyVars == <<anonVars, fgVars, txVars, propVars, lockVars, scoreVars, alertVars, flowVars>>

InitWindow ==
    /\ pc = "call"
    /\ winArgs \in [localAnonSet : {1, 3, 10}, mixTime : {4}, events : EventLists, now : NowSet]
    /\ winRes = <<>>
    /\ EarlyIdle
    /\ ShadowIdle
    /\ InvIdle
    /\ ScanIdle
    /\ ClusterIdle

CallComputeWindowedAnonSet ==
    /\ pc = "call"
    /\ winRes' = ComputeWindowedAnonSet(winArgs.localAnonSet, winArgs.mixTime,
                                        winArgs.events, winArgs.now)
    /\ pc' = "returned"
    /\ UNCHANGED <<winArgs, earlyVars, shadowRun, invCase, invReqs, scanState, clEngine,
                   clLinks>>

NextWindow == CallComputeWindowedAnonSet

SpecWindow == InitWindow /\ [][NextWindow]_vars

\* the value the windowed anonymity set has when the events stamped in
\* (mixTime, cutoff] are the ones counted
WindowOverHalfOpen(duration) ==
    LET cutoff == winArgs.mixTime + duration IN
    DecayOver(winArgs.localAnonSet,
              SelectSeq(winArgs.events,
                        LAMBDA evt : evt.Timestamp > winArgs.mixTime
                                     /\ evt.Timestamp <= cutoff))

WindowPassed(duration) == winArgs.now >= winArgs.mixTime + duration

\* C21: for each window whose cutoff (mix time plus the window length) has
\* passed, ComputeWindowedAnonSet returns max(1, round(local * product of
\* (1 - severity))) over exactly the erosion events with
\* mix_time < timestamp <= cutoff: an event stamped at the cutoff counts.
C21_WindowIsHalfOpen ==
    pc = "returned" =>
        /\ WindowPassed(Window1d) => winRes.AnonSet1d = WindowOverHalfOpen(Window1d)
        /\ WindowPassed(Window7d) => winRes.AnonSet7d = WindowOverHalfOpen(Window7d)
        /\ WindowPassed(Window30d) => winRes.AnonSet30d = WindowOverHalfOpen(Window30d)
        /\ WindowPassed(Window365d) => winRes.AnonSet365d = WindowOverHalfOpen(Window365d)
-----------------------------------------------------------------------------
(* The shadow runner (shadow/shadow_runner.go)                              *)
(* One call of RunShadowAnalysis, the caller that may cancel its context    *)
(* at any moment, and the shadow_results table.  The INSERT is a statement  *)
(* sent to a database server: the server executes it on its own, and a      *)
(* cancellation ends the client's wait for the answer, not the statement.   *)

CtxCanceled == "context canceled"

\* the ShadowResult built from the two analysis results (lines 52-59)
ShadowResult(t, prodResult, shadowResult, snapshotID) ==
    [Txid |-> t.Txid,
     ShadowFlags |-> shadowResult.HeuristicFlags,
     ProductionFlags |-> prodResult.HeuristicFlags,
     DeltaAnonSet |-> shadowResult.AnonSet - prodResult.AnonSet,
     SnapshotID |-> snapshotID]

\* transactions handed to the runner: a plain payment and one whose
\* anonymity set depends on map iteration order
ShadowTxs ==
    {Transaction(<<TxIn(100000, AddrSegwitA)>>, <<TxOut(40000, AddrSegwitB, <<>>)>>, 1000, 200),
     Transaction(<<TxIn(1100, AddrSegwitA), TxIn(2500, AddrSegwitB)>>,
                 <<TxOut(100, AddrSegwitA, <<>>), TxOut(100, AddrSegwitB, <<>>),
                   TxOut(2500, AddrSegwitA, <<>>), TxOut(2500, AddrSegwitB, <<>>)>>,
                 0, 100),
     Transaction(<<TxIn(100000, AddrUnknown), TxIn(300, AddrUnknown)>>,
                 <<TxOut(40000, AddrSegwitB, <<>>)>>, 1000, 200),
     Transaction(<<TxIn(100000, AddrTaprootA), TxIn(300, AddrLegacyA)>>,
                 <<TxOut(40000, AddrSegwitB, <<>>)>>, 1000, 200)}

InitShadow ==
    /\ pc = "shadow"
    /\ \E t \in ShadowTxs, hasPool \in BOOLEAN, c \in {"live", "cancelled"},
          id \in {CurrentSnapshotID, CurrentSnapshotID + 1} :
          shadowRun = [pc |-> "start", ctx |-> c, tx |-> t, hasPool |-> hasPool,
                       shadowSnapshotID |-> id, result |-> <<>>, err |-> "",
                       inserted |-> FALSE, rows |-> <<>>]
    /\ EarlyIdle
    /\ WinIdle
    /\ InvIdle
    /\ ScanIdle
    /\ ClusterIdle

ShadowFrame ==
    UNCHANGED <<pc, earlyVars, winArgs, winRes, invCase, invReqs, scanState, clEngine,
                clLinks>>

\* the caller cancels the context it passed
CancelContext ==
    /\ shadowRun.pc # "returned"
    /\ shadowRun.ctx = "live"
    /\ shadowRun' = [shadowRun EXCEPT !.ctx = "cancelled"]
    /\ ShadowFrame

\* RunShadowAnalysis, lines 47-65: both functions run and the result is built
RunHeuristics ==
    /\ shadowRun.pc = "start"
    /\ \E prodResult \in AnalyzeTx(shadowRun.tx, <<>>, 1),
          shadowResult \in AnalyzeTx(shadowRun.tx, <<>>, 2) :
          shadowRun' =
              IF prodResult.panic \/ shadowResult.panic
              THEN [shadowRun EXCEPT !.pc = "panicked"]
              ELSE [shadowRun EXCEPT
                       !.pc = "built",
                       !.result = ShadowResult(shadowRun.tx, prodResult, shadowResult,
                                               shadowRun.shadowSnapshotID)]
    /\ ShadowFrame

\* lines 68-75 and persistShadowResult up to the call of pool.Exec: with no
\* pool the run returns; with a context already cancelled Exec returns its
\* error at once; otherwise the statement goes to the server
persistShadowResult ==
    /\ shadowRun.pc = "built"
    /\ shadowRun' =
           IF ~shadowRun.hasPool THEN [shadowRun EXCEPT !.pc = "returned"]
           ELSE IF shadowRun.ctx = "cancelled"
           THEN [shadowRun EXCEPT !.pc = "returned", !.err = CtxCanceled]
           ELSE [shadowRun EXCEPT !.pc = "exec"]
    /\ ShadowFrame

\* the server executes the INSERT it received
ServerInsert ==
    /\ shadowRun.pc = "exec"
    /\ ~shadowRun.inserted
    /\ shadowRun' = [shadowRun EXCEPT !.inserted = TRUE,
                                      !.rows = Append(@, shadowRun.result)]
    /\ ShadowFrame

\* pool.Exec returns: with the server's answer, or with the context's
\* error once the context is cancelled; lines 70-75 pass the error on
ExecReturn ==
    /\ shadowRun.pc = "exec"
    /\ \/ /\ shadowRun.inserted
          /\ shadowRun' = [shadowRun EXCEPT !.pc = "returned"]
       \/ /\ shadowRun.ctx = "cancelled"
          /\ shadowRun' = [shadowRun EXCEPT !.pc = "returned", !.err = CtxCanceled]
    /\ ShadowFrame

NextShadow ==
    \/ CancelContext
    \/ RunHeuristics
    \/ persistShadowResult
    \/ ServerInsert
    \/ ExecReturn

SpecShadow == InitShadow /\ [][NextShadow]_vars

\* C22: a RunShadowAnalysis call whose context was cancelled persists
\* nothing: when the run has returned the context's cancellation, the
\* shadow_results table holds no row.
C22_CancelledRunPersistsNothing ==
    (shadowRun.pc = "returned" /\ shadowRun.err = CtxCanceled) => shadowRun.rows = <<>>
-----------------------------------------------------------------------------
(* The investigation endpoints (api/investigation_handlers.go) on one case  *)
(* Every API request runs in a goroutine of its own.  GetInvestigation      *)
(* takes the manager's read lock only while it looks the case up; the       *)
(* pointer it returns is used with no lock held.  Each statement that       *)
(* reads or writes the shared Investigation is a step of its own.           *)

DefaultMaxHops == 10

MaxRequests == 2     \* API requests in flight on the case

Request(kind, addr, maxHops) ==
    [kind |-> kind, pc |-> "start", addr |-> addr, maxHops |-> maxHops, found |-> 0,
     total |-> 0]

\* POST .../trace with and without a maxHops override, POST .../tag for two
\* addresses, GET .../exits
RequestSet ==
    {Request("trace", <<>>, h) : h \in {0, 5}}
    \cup {Request("tag", a, 0) : a \in {AddrLegacyA, AddrSegwitA}}
    \cup {Request("exits", <<>>, 0)}

\* the case as CreateInvestigation leaves it, before or after a first trace
NewInvestigation(traced) ==
    [TheftAddresses |-> <<AddrLegacyA>>,
     TaggedAddresses |-> <<>>,
     FlowGraph |-> IF traced THEN <<TraceFundFlow(<<AddrLegacyA>>)>> ELSE <<>>,
     TotalRecovered |-> 0,
     TraceConfig |-> [MaxHops |-> DefaultMaxHops]]

InitInvestigation ==
    /\ pc = "serve"
    /\ invCase \in {NewInvestigation(t) : t \in BOOLEAN}
    /\ invReqs \in [1..MaxRequests -> RequestSet]
    /\ EarlyIdle
    /\ WinIdle
    /\ ShadowIdle
    /\ ScanIdle
    /\ ClusterIdle

InvFrame ==
    UNCHANGED <<pc, earlyVars, winArgs, winRes, shadowRun, scanState, clEngine, clLinks>>

Goto(r, to) == invReqs' = [invReqs EXCEPT ![r].pc = to]

\* every handler: h.invManager.GetInvestigation(caseID) and the JSON binding
GetInvestigation(r) ==
    /\ invReqs[r].pc = "start"
    /\ Goto(r, "got")
    /\ UNCHANGED invCase
    /\ InvFrame

\* handleRunTrace: the overrides written into inv.TraceConfig
TraceOverride(r) ==
    /\ invReqs[r].kind = "trace"
    /\ invReqs[r].pc = "got"
    /\ invCase' = IF invReqs[r].maxHops > 0
                  THEN [invCase EXCEPT !.TraceConfig.MaxHops = invReqs[r].maxHops]
                  ELSE invCase
    /\ Goto(r, "configured")
    /\ InvFrame

\* RunTrace: inv.FlowGraph = &FlowGraph{}
RunTraceReset(r) ==
    /\ invReqs[r].kind = "trace"
    /\ invReqs[r].pc = "configured"
    /\ invCase' = [invCase EXCEPT !.FlowGraph = <<TraceFundFlow(<<>>)>>]
    /\ Goto(r, "reset")
    /\ InvFrame

\* RunTrace: graph := TraceFundFlow(...); inv.FlowGraph = &graph
RunTraceAssign(r) ==
    /\ invReqs[r].kind = "trace"
    /\ invReqs[r].pc = "reset"
    /\ invCase' = [invCase EXCEPT !.FlowGraph = <<TraceFundFlow(invCase.TheftAddresses)>>]
    /\ Goto(r, "done")
    /\ InvFrame

\* TagAddress: the loop that looks for an existing tag of the address
TagScan(r) ==
    /\ invReqs[r].kind = "tag"
    /\ invReqs[r].pc = "got"
    /\ LET tags == invCase.TaggedAddresses
           hits == {i \in 1..Len(tags) : tags[i].Address = invReqs[r].addr}
       IN invReqs' = [invReqs EXCEPT
              ![r].pc = "scanned",
              ![r].found = IF hits = {} THEN 0
                           ELSE CHOOSE i \in hits : \A j \in hits : i <= j]
    /\ UNCHANGED invCase
    /\ InvFrame

\* TagAddress: the tag stored over the existing one, or appended
TagStore(r) ==
    /\ invReqs[r].kind = "tag"
    /\ invReqs[r].pc = "scanned"
    /\ LET tag == [Address |-> invReqs[r].addr, Label |-> "binance", Role |-> "exchange",
                   TaggedBy |-> r]
       IN IF invReqs[r].found > 0
          THEN /\ invCase' = [invCase EXCEPT !.TaggedAddresses[invReqs[r].found] = tag]
               /\ Goto(r, "done")
          ELSE /\ invCase' = [invCase EXCEPT !.TaggedAddresses = Append(@, tag)]
               /\ Goto(r, "appended")
    /\ InvFrame

\* TagAddress: the node of the flow graph relabelled, when there is one
TagGraph(r) ==
    /\ invReqs[r].kind = "tag"
    /\ invReqs[r].pc = "appended"
    /\ invCase' =
           IF invCase.FlowGraph = <<>> THEN invCase
           ELSE LET g == invCase.FlowGraph[1] IN
                IF ~hasNode(g, invReqs[r].addr) THEN invCase
                ELSE [invCase EXCEPT
                         !.FlowGraph[1].Nodes[FirstNode(g, invReqs[r].addr)] =
                             [@ EXCEPT !.Label = "binance", !.Role = "exchange",
                                       !.IsFlagged = TRUE]]
    /\ Goto(r, "done")
    /\ InvFrame

\* ComputeRecovery: the exits read and their values summed
RecoverySum(r) ==
    /\ invReqs[r].kind = "exits"
    /\ invReqs[r].pc = "got"
    /\ LET g == invCase.FlowGraph IN
       invReqs' = [invReqs EXCEPT
           ![r].pc = "summed",
           ![r].total = IF g = <<>> THEN 0
                        ELSE SumOver(GetExitPoints(g[1]),
                                     [i \in 1..Len(g[1].Nodes) |->
                                         g[1].Nodes[i].ValueReceived])]
    /\ UNCHANGED invCase
    /\ InvFrame

\* ComputeRecovery: inv.TotalRecovered = total
RecoveryStore(r) ==
    /\ invReqs[r].kind = "exits"
    /\ invReqs[r].pc = "summed"
    /\ invCase' = [invCase EXCEPT !.TotalRecovered = invReqs[r].total]
    /\ Goto(r, "done")
    /\ InvFrame

NextInvestigation ==
    \E r \in 1..MaxRequests :
        \/ GetInvestigation(r)
        \/ TraceOverride(r)
        \/ RunTraceReset(r)
        \/ RunTraceAssign(r)
        \/ TagScan(r)
        \/ TagStore(r)
        \/ TagGraph(r)
        \/ RecoverySum(r)
        \/ RecoveryStore(r)

SpecInvestigation == InitInvestigation /\ [][NextInvestigation]_vars

\* a request is in the middle of a mutation: it has taken the first step
\* of its override, RunTrace, TagAddress or ComputeRecovery and not the last
Mutating(r) == invReqs[r].pc \in {"configured", "reset", "scanned", "appended", "summed"}

\* C25: mutations of one Investigation issued by concurrent API requests
\* are serialized: no two requests are in the middle of a mutation of the
\* case at the same time.
C25_MutationsSerialized ==
    \A r1, r2 \in 1..MaxRequests : (Mutating(r1) /\ Mutating(r2)) => r1 = r2
-----------------------------------------------------------------------------
(* The historical block scanner (scanner/block_scanner.go)                  *)
(* ScanRange calls arrive on goroutines of their own (one per API           *)
(* request); isRunning is an atomic.Bool, so each Load and each Store is    *)
(* one step, and nothing joins the Load of line 74 to the Store of line 79. *)

MaxScanCalls == 2    \* ScanRange calls that arrive
MaxScanBlocks == 2   \* most blocks in the range of one call

ScanCall(endHeight) == [pc |-> "start", height |-> 1, endHeight |-> endHeight]

InitScan ==
    /\ pc = "scan"
    /\ \E calls \in [1..MaxScanCalls -> {ScanCall(e) : e \in 1..MaxScanBlocks}] :
          scanState = [isRunning |-> FALSE, currentHeight |-> 0, ctx |-> "live",
                       calls |-> calls]
    /\ EarlyIdle
    /\ WinIdle
    /\ ShadowIdle
    /\ InvIdle
    /\ ClusterIdle

ScanFrame ==
    UNCHANGED <<pc, earlyVars, winArgs, winRes, shadowRun, invCase, invReqs, clEngine,
                clLinks>>

\* ScanRange: "if s.isRunning.Load() { return }"
ScanRangeCheck(c) ==
    /\ scanState.calls[c].pc = "start"
    /\ scanState' = [scanState EXCEPT
           !.calls[c].pc = IF scanState.isRunning THEN "ignored" ELSE "checked"]
    /\ ScanFrame

\* ScanRange: isRunning.Store(true), the counters reset and the scan
\* goroutine started; the call returns
ScanRangeStart(c) ==
    /\ scanState.calls[c].pc = "checked"
    /\ scanState' = [scanState EXCEPT !.isRunning = TRUE, !.calls[c].pc = "scanning"]
    /\ ScanFrame

\* the scan goroutine: one pass of the loop over the heights
ScanBlockStep(c) ==
    /\ scanState.calls[c].pc = "scanning"
    /\ scanState.ctx = "live"
    /\ scanState.calls[c].height <= scanState.calls[c].endHeight
    /\ scanState' = [scanState EXCEPT !.currentHeight = scanState.calls[c].height,
                                      !.calls[c].height = @ + 1]
    /\ ScanFrame

\* the scan goroutine ends, the range done or the context cancelled:
\* "defer s.isRunning.Store(false)"
ScanEnd(c) ==
    /\ scanState.calls[c].pc = "scanning"
    /\ \/ scanState.ctx = "cancelled"
       \/ scanState.calls[c].height > scanState.calls[c].endHeight
    /\ scanState' = [scanState EXCEPT !.isRunning = FALSE, !.calls[c].pc = "finished"]
    /\ ScanFrame

\* the context of the scans is cancelled
ScanCancel ==
    /\ scanState.ctx = "live"
    /\ \E c \in 1..MaxScanCalls : scanState.calls[c].pc = "scanning"
    /\ scanState' = [scanState EXCEPT !.ctx = "cancelled"]
    /\ ScanFrame

NextScan ==
    \/ \E c \in 1..MaxScanCalls :
          \/ ScanRangeCheck(c)
          \/ ScanRangeStart(c)
          \/ ScanBlockStep(c)
          \/ ScanEnd(c)
    \/ ScanCancel

SpecScan == InitScan /\ [][NextScan]_vars

\* the scan goroutines alive
RunningScans == {c \in 1..MaxScanCalls : scanState.calls[c].pc = "scanning"}

\* C27: at most one historical scan runs at a time, also when two
\* ScanRange calls race before either has marked the scanner as running.
C27_AtMostOneScan == Cardinality(RunningScans) <= 1
-----------------------------------------------------------------------------
(* The address clustering engine (cluster_engine.go)                        *)
(* parent, rank and size are Go maps keyed by address; the engine's state   *)
(* is the record of the three.  LLR thresholds are thousandths.             *)

EdgeTypeChange == 2
EdgeTypePayJoinSuspect == 5
EdgeTypePeelChain == 6
EdgeTypeDustLink == 8
ChangeMergeLLR == 1500
PeelMergeLLR == 2000
OtherMergeLLR == 3000

NewClusterEngine == [parent |-> <<>>, rank |-> <<>>, size |-> <<>>]

RECURSIVE RootOf(_, _)
RootOf(parent, addr) == IF parent[addr] = addr THEN addr ELSE RootOf(parent, parent[addr])

\* the addresses on the way from addr to its root
RECURSIVE PathOf(_, _)
PathOf(parent, addr) ==
    IF parent[addr] = addr THEN {addr} ELSE {addr} \cup PathOf(parent, parent[addr])

\* Find: an address not seen before becomes a cluster of its own; the
\* path to the root is compressed
Find(ce, addr) ==
    LET c1 == IF addr \in DOMAIN ce.parent THEN ce
              ELSE [parent |-> ce.parent @@ (addr :> addr),
                    rank |-> ce.rank @@ (addr :> 0),
                    size |-> ce.size @@ (addr :> 1)]
        root == RootOf(c1.parent, addr)
        path == PathOf(c1.parent, addr)
    IN [ce |-> [c1 EXCEPT !.parent = [x \in DOMAIN c1.parent |->
                                         IF x \in path THEN root ELSE c1.parent[x]]],
        root |-> root]

\* Union by rank
Union(ce, addr1, addr2) ==
    LET f1 == Find(ce, addr1)
        f2 == Find(f1.ce, addr2)
        c == f2.ce
        root1 == f1.root
        root2 == f2.root
    IN IF root1 = root2 THEN [ce |-> c, merged |-> FALSE]
       ELSE IF c.rank[root1] < c.rank[root2]
       THEN [ce |-> [c EXCEPT !.parent[root1] = root2,
                              !.size[root2] = @ + c.size[root1]],
             merged |-> TRUE]
       ELSE IF c.rank[root1] > c.rank[root2]
       THEN [ce |-> [c EXCEPT !.parent[root2] = root1,
                              !.size[root1] = @ + c.size[root2]],
             merged |-> TRUE]
       ELSE [ce |-> [c EXCEPT !.parent[root2] = root1,
                              !.size[root1] = @ + c.size[root2],
                              !.rank[root1] = @ + 1],
             merged |-> TRUE]

\* whether MergeFromEdges unites the endpoints of an edge
EdgeMerges(edge) ==
    IF edge.EdgeType = EdgeTypeCIOH THEN TRUE
    ELSE IF edge.EdgeType = EdgeTypeChange THEN edge.LLRScore >= ChangeMergeLLR
    ELSE IF edge.EdgeType \in {EdgeTypeCIOHInvalidated, EdgeTypeCoinjoinSuspected,
                               EdgeTypePayJoinSuspect}
    THEN FALSE
    ELSE IF edge.EdgeType = EdgeTypePeelChain THEN edge.LLRScore >= PeelMergeLLR
    ELSE edge.LLRScore >= OtherMergeLLR

\* MergeFromEdges: the engine after the edges from index k on
RECURSIVE MergeEdgesFrom(_, _, _)
MergeEdgesFrom(ce, edges, k) ==
    IF k > Len(edges) THEN ce
    ELSE IF EdgeMerges(edges[k])
    THEN MergeEdgesFrom(Union(ce, edges[k].SrcNodeID, edges[k].DstNodeID).ce, edges, k + 1)
    ELSE MergeEdgesFrom(ce, edges, k + 1)

MergeFromEdges(ce, edges) == MergeEdgesFrom(ce, edges, 1)

\* MergeFromTransaction: the loop over the inputs after the first
RECURSIVE MergeInputsFrom(_, _, _, _)
MergeInputsFrom(ce, firstAddr, inputs, i) ==
    IF i > Len(inputs) THEN ce
    ELSE IF inputs[i].Address # AddrUnknown /\ inputs[i].Address # firstAddr
    THEN MergeInputsFrom(Union(ce, firstAddr, inputs[i].Address).ce, firstAddr, inputs, i + 1)
    ELSE MergeInputsFrom(ce, firstAddr, inputs, i + 1)

MergeFromTransaction(ce, inputs, isCoinJoin) ==
    IF isCoinJoin \/ Len(inputs) < 2 THEN ce
    ELSE MergeInputsFrom(ce, inputs[1].Address, inputs, 2)

MaxClusterIn == 2    \* longest input list of a transaction handed to the engine
MaxMerges == 3       \* merge calls on one engine

ClusterAddrSet == {AddrUnknown, AddrLegacyA, AddrSegwitA, AddrSegwitB}

ClusterInputLists ==
    UNION {[1..n -> {[Address |-> a] : a \in ClusterAddrSet}] : n \in 0..MaxClusterIn}

\* edge lists handed to MergeFromEdges: what GenerateCIOHEdges emits for a
\* transaction, and single edges of the other types around the thresholds
ClusterEdgeLists ==
    {GenerateCIOHEdges(inputs, cj, 0, 1) : inputs \in ClusterInputLists, cj \in BOOLEAN}
    \cup {<<createEdge(Uuid(1, 1), AddrLegacyA, dst, type, llr, DepGroupNone, 0)>> :
             dst \in {AddrUnknown, AddrSegwitA},
             type \in {EdgeTypeChange, EdgeTypePayJoinSuspect, EdgeTypePeelChain,
                       EdgeTypeDustLink},
             llr \in {ChangeMergeLLR - 100, PeelMergeLLR, OtherMergeLLR}}

\* the links between two distinct known addresses that a transaction
\* makes merge-eligible: its inputs, unless it is a coinjoin
TxLinks(inputs, isCoinJoin) ==
    IF isCoinJoin \/ Len(inputs) < 2 THEN {}
    ELSE {{inputs[i].Address, inputs[j].Address} : i, j \in 1..Len(inputs)}
         \ ({{a} : a \in ClusterAddrSet}
            \cup {{AddrUnknown, a} : a \in ClusterAddrSet})

\* and those a list of edges makes merge-eligible
EdgeLinks(edges) ==
    {{edges[k].SrcNodeID, edges[k].DstNodeID} :
        k \in {i \in 1..Len(edges) :
                  /\ EdgeMerges(edges[i])
                  /\ edges[i].SrcNodeID # AddrUnknown
                  /\ edges[i].DstNodeID # AddrUnknown
                  /\ edges[i].SrcNodeID # edges[i].DstNodeID}}

InitCluster ==
    /\ pc = 0
    /\ clEngine = NewClusterEngine
    /\ clLinks = {}
    /\ EarlyIdle
    /\ WinIdle
    /\ ShadowIdle
    /\ InvIdle
    /\ ScanIdle

ClusterFrame ==
    UNCHANGED <<earlyVars, winArgs, winRes, shadowRun, invCase, invReqs, scanState>>

CallMergeFromTransaction ==
    /\ pc < MaxMerges
    /\ \E inputs \in ClusterInputLists, isCoinJoin \in BOOLEAN :
          /\ clEngine' = MergeFromTransaction(clEngine, inputs, isCoinJoin)
          /\ clLinks' = clLinks \cup TxLinks(inputs, isCoinJoin)
    /\ pc' = pc + 1
    /\ ClusterFrame

CallMergeFromEdges ==
    /\ pc < MaxMerges
    /\ \E edges \in ClusterEdgeLists :
          /\ clEngine' = MergeFromEdges(clEngine, edges)
          /\ clLinks' = clLinks \cup EdgeLinks(edges)
    /\ pc' = pc + 1
    /\ ClusterFrame

NextCluster == CallMergeFromTransaction \/ CallMergeFromEdges

SpecCluster == InitCluster /\ [][NextCluster]_vars

\* the addresses reachable from the set S over a set of links
RECURSIVE ReachOver(_, _)
ReachOver(S, links) ==
    LET T == S \cup UNION {l \in links : l \cap S # {}} IN
    IF T = S THEN S ELSE ReachOver(T, links)

SameCluster(a, b) ==
    /\ a \in DOMAIN clEngine.parent
    /\ b \in DOMAIN clEngine.parent
    /\ RootOf(clEngine.parent, a) = RootOf(clEngine.parent, b)

\* C30: inputs with an unknown (empty) address never link clusters: two
\* distinct known addresses are in the same cluster only if a chain of
\* merge-eligible links between known addresses connects them.
C30_UnknownNeverLinks ==
    \A a, b \in ClusterAddrSet \ {AddrUnknown} :
        (a # b /\ SameCluster(a, b)) => b \in ReachOver({a}, clLinks)

====
